---- MODULE Spec2Model ----
(***************************************************************************)
(* Date & time range picker: the date-state validators (dateState.ts),    *)
(* the timezone utilities (timezone.ts, shipped in the same file), the     *)
(* components CalendarGrid, TimeInput and DateTimeRangePicker and the      *)
(* hooks useDateTimeRangeState, useCalendarNavigation and useTimeInput.    *)
(*                                                                         *)
(* A JavaScript Date is an instant with millisecond precision.  It is      *)
(* modelled as a record [t, ms]: t is the whole number of minutes since    *)
(* 1970-01-01T00:00Z and ms the milliseconds within that minute            *)
(* (0..59999), so that every value stays inside TLC's integers.  The       *)
(* getters and setters of Date work in the timezone of the machine the     *)
(* program runs on: the variable host.                                     *)
(*                                                                         *)
(* null / undefined is the empty sequence; a present optional value x is   *)
(* the one-element sequence <<x>>.  A well-formed "HH:MM" string is the    *)
(* record [hh, mm] of the numbers its two digit groups denote.             *)
(***************************************************************************)
EXTENDS Integers, Sequences, FiniteSets, TLC

VARIABLES host, pc, op, args, ret, picker, onRangeChange

vars == <<host, pc, op, args, ret, picker, onRangeChange>>

Null == <<>>

Some(x) == <<x>>

Val(o) == o[1]

IsNull(o) == o = Null

(***************************************************************************)
(* The proleptic Gregorian calendar (what Date and Intl compute with).     *)
(* Months are 0..11 as in Date.                                            *)
(***************************************************************************)
\* Evaluation by value: in CHOOSE r \in { F(x) : x \in {e} } : TRUE the
\* variable x is bound to the value of e, so e is evaluated once however
\* often F reads its argument.
DaysFromCivilOf(y, m, d) ==
  LET yy  == IF m <= 1 THEN y - 1 ELSE y
      era == yy \div 400
      yoe == yy - era * 400
      mp  == IF m > 1 THEN m - 2 ELSE m + 10
      doy == (153 * mp + 2) \div 5 + d - 1
      doe == yoe * 365 + yoe \div 4 - yoe \div 100 + doy
  IN  era * 146097 + doe - 719468

DaysFromCivil(y, m, d) ==
  CHOOSE r \in { DaysFromCivilOf(yv, mv, dv) : yv \in {y}, mv \in {m}, dv \in {d} } : TRUE

CivilOfYearDay(era, yoe, doy) ==
  LET mp == (5 * doy + 2) \div 153
      d  == doy - (153 * mp + 2) \div 5 + 1
      m  == IF mp < 10 THEN mp + 2 ELSE mp - 10
  IN  [year |-> yoe + era * 400 + (IF m <= 1 THEN 1 ELSE 0), month |-> m, day |-> d]

CivilOfEraDay(era, doe) ==
  CHOOSE r \in
    { CivilOfYearDay(era, yoe, doe - (365 * yoe + yoe \div 4 - yoe \div 100)) :
        yoe \in {(doe - doe \div 1460 + doe \div 36524 - doe \div 146096) \div 365} } : TRUE

CivilFromDays(z) ==
  CHOOSE r \in { CivilOfEraDay(zz \div 146097, zz % 146097) : zz \in {z + 719468} } : TRUE

\* Day of the week of a day number, 0 = Sunday (1970-01-01 was a Thursday).
WeekDay(z) == (z + 4) % 7

\* ECMAScript MakeDay: a month outside 0..11 carries into the year, a day of
\* the month outside the month carries into the next or previous months.
MakeDay(y, m, d) == DaysFromCivil(y + m \div 12, m % 12, 1) + d - 1

(***************************************************************************)
(* The host's timezone database, as Intl.DateTimeFormat reads it: the UTC  *)
(* offset in minutes of a zone at an instant (minutes since the epoch).    *)
(* The clock changes of 2024, 2025 and 2026, the years the calls below     *)
(* reach, are tabulated as [from, until) periods of instants:              *)
(*   America/New_York, EDT: 2024-03-10T07:00Z .. 2024-11-03T06:00Z,        *)
(*     2025-03-09T07:00Z .. 2025-11-02T06:00Z,                             *)
(*     2026-03-08T07:00Z .. 2026-11-01T06:00Z;                             *)
(*   Europe/London, BST: 2024-03-31T01:00Z .. 2024-10-27T01:00Z,           *)
(*     2025-03-30T01:00Z .. 2025-10-26T01:00Z,                             *)
(*     2026-03-29T01:00Z .. 2026-10-25T01:00Z;                             *)
(*   Australia/Adelaide, ACST (standard time, the southern winter):        *)
(*     2024-04-06T16:30Z .. 2024-10-05T16:30Z,                             *)
(*     2025-04-05T16:30Z .. 2025-10-04T16:30Z,                             *)
(*     2026-04-04T16:30Z .. 2026-10-03T16:30Z.                             *)
(*   America/Santiago, standard time (the southern winter; the clocks go  *)
(*     forward at 24:00, so that 00:00 of the next day does not exist):    *)
(*     2024-04-07T03:00Z .. 2024-09-08T04:00Z,                             *)
(*     2025-04-06T03:00Z .. 2025-09-07T04:00Z,                             *)
(*     2026-04-05T03:00Z .. 2026-09-06T04:00Z.                             *)
(* An identifier the database does not know has no offset here: the        *)
(* calls below are only applied to the zones of ModelledZones.             *)
(***************************************************************************)
NewYorkDaylight ==
  { <<28500900, 28843560>>, <<29025060, 29367720>>, <<29549220, 29891880>> }

LondonSummer ==
  { <<28530780, 28833180>>, <<29054940, 29357340>>, <<29579100, 29881500>> }

AdelaideStandard ==
  { <<28540350, 28802430>>, <<29064510, 29326590>>, <<29588670, 29850750>> }

SantiagoStandard ==
  { <<28540980, 28762800>>, <<29065140, 29286960>>, <<29589300, 29811120>> }

Within(periods, t) == \E p \in periods : p[1] <= t /\ t < p[2]

ZoneOffset(zone, t) ==
  CASE zone = "UTC" -> 0
    [] zone = "GMT" -> 0
    [] zone = "Asia/Kolkata" -> 330
    [] zone = "Asia/Tokyo" -> 540
    [] zone = "America/New_York" -> IF Within(NewYorkDaylight, t) THEN -240 ELSE -300
    [] zone = "Europe/London" -> IF Within(LondonSummer, t) THEN 60 ELSE 0
    [] zone = "Australia/Adelaide" -> IF Within(AdelaideStandard, t) THEN 570 ELSE 630
    [] zone = "Africa/Nairobi" -> 180
    [] zone = "America/Santiago" -> IF Within(SantiagoStandard, t) THEN -240 ELSE -180

(***************************************************************************)
(* Date: local time of the host.                                           *)
(***************************************************************************)
\* LocalTime(t): the host's wall clock at an instant, in minutes.
LocalMinutes(date) == date.t + ZoneOffset(host, date.t)

\* ECMAScript UTC(t): the instant of a host wall-clock time.  A wall-clock
\* time that a clock change skips or repeats is read with the offset in
\* force before the change.
LocalToUtcBetween(lt, before, after) ==
  IF ZoneOffset(host, lt - before) = before THEN lt - before
  ELSE IF ZoneOffset(host, lt - after) = after THEN lt - after
  ELSE lt - before

LocalToUtc(lt) ==
  CHOOSE r \in
    { LocalToUtcBetween(v, before, after) :
        v \in {lt}, before \in {ZoneOffset(host, lt - 1440)},
        after \in {ZoneOffset(host, lt + 1440)} } : TRUE

\* new Date(year, month, day, hours, minutes, seconds, ms)
NewDate(y, m, d, h, mi, s, ms) ==
  [t  |-> LocalToUtc(MakeDay(y, m, d) * 1440 + h * 60 + mi + ((s * 1000) + ms) \div 60000),
   ms |-> ((s * 1000) + ms) % 60000]

\* The host's calendar fields of a Date.
LocalCivil(date) == CivilFromDays(LocalMinutes(date) \div 1440)

getFullYear(date) == LocalCivil(date).year

getMonth(date) == LocalCivil(date).month

getDate(date) == LocalCivil(date).day

getDay(date) == WeekDay(LocalMinutes(date) \div 1440)

getHours(date) == (LocalMinutes(date) % 1440) \div 60

getMinutes(date) == LocalMinutes(date) % 60

getSeconds(date) == date.ms \div 1000

getMilliseconds(date) == date.ms % 1000

\* date.setHours(hours, minutes, seconds, ms)
setHours(date, h, mi, s, ms) ==
  CHOOSE r \in { NewDate(c.year, c.month, c.day, h, mi, s, ms) : c \in {LocalCivil(date)} } : TRUE

\* date.setMonth(month)
setMonth(date, m) ==
  CHOOSE r \in
    { NewDate(c.year, m, c.day, (lm % 1440) \div 60, lm % 60,
              getSeconds(date), getMilliseconds(date)) :
        c \in {LocalCivil(date)}, lm \in {LocalMinutes(date)} } : TRUE

\* setDate that stays within the month of the Date.
setDateWithinMonth(date, d) ==
  CHOOSE r \in
    { NewDate(c.year, c.month, IF d < 1 THEN 1 ELSE d, (lm % 1440) \div 60, lm % 60,
              getSeconds(date), getMilliseconds(date)) :
        c \in {LocalCivil(date)}, lm \in {LocalMinutes(date)} } : TRUE

\* date.setDate(day)
setDate(date, d) ==
  CHOOSE r \in
    { NewDate(c.year, c.month, d, (lm % 1440) \div 60, lm % 60,
              getSeconds(date), getMilliseconds(date)) :
        c \in {LocalCivil(date)}, lm \in {LocalMinutes(date)} } : TRUE

\* The relational operators on Date compare the time values.
DateLT(a, b) == a.t < b.t \/ (a.t = b.t /\ a.ms < b.ms)

DateGT(a, b) == DateLT(b, a)

\* a > b where the code has a >= b.
DateGEStrict(a, b) == DateLT(b, a)

DateGE(a, b) == ~DateLT(a, b)

\* a.getTime() - b.getTime(), in milliseconds
DiffMs(a, b) == (a.t - b.t) * 60000 + (a.ms - b.ms)

(***************************************************************************)
(* dateState.ts                                                            *)
(***************************************************************************)
\* JavaScript's truthiness of an optional number: undefined and 0 are falsy.
TruthyNumber(o) == ~IsNull(o) /\ Val(o) # 0

\* Array.prototype.includes over a sequence.
SeqIncludes(s, x) == \E i \in 1..Len(s) : s[i] = x

\* isSameDay without the comparison of the day of the month.
isSameDayOfMonthOnly(d1, d2) ==
  /\ getFullYear(d1) = getFullYear(d2)
  /\ getMonth(d1) = getMonth(d2)

isSameDay(d1, d2) ==
  /\ getFullYear(d1) = getFullYear(d2)
  /\ getMonth(d1) = getMonth(d2)
  /\ getDate(d1) = getDate(d2)

combineDateTime(date, time) == setHours(date, time.hh, time.mm, 0, 0)

\* a <= b on Dates.
DateLE(a, b) == ~DateLT(b, a)

\* getDateRange, lines 171-174: the while loop, from the current day on.
RECURSIVE DateRangeLoop(_, _, _)
DateRangeLoop(current, end, dates) ==
  IF DateLE(current, end)
  THEN DateRangeLoop(setDate(current, getDate(current) + 1), end, Append(dates, current))
  ELSE dates

getDateRange(startDate, endDate) ==
  DateRangeLoop(setHours(startDate, 0, 0, 0, 0), setHours(endDate, 0, 0, 0, 0), <<>>)

\* Math.abs
Abs(n) == IF n < 0 THEN 0 - n ELSE n

\* Math.ceil(n / d) for n >= 0, d > 0
CeilDiv(n, d) == (n + d - 1) \div d

daysBetween(startDate, endDate) ==
  CeilDiv(Abs(DiffMs(setHours(endDate, 0, 0, 0, 0), setHours(startDate, 0, 0, 0, 0))),
          86400000)

\* formatDuration with the plural taken from one unit on.
formatDurationPluralFromOne(ms) ==
  LET seconds == ms \div 1000
      minutes == seconds \div 60
      hours   == minutes \div 60
      days    == hours \div 24
      plural(n) == IF n >= 1 THEN "s" ELSE ""
  IN  IF days > 0 THEN ToString(days) \o " day" \o plural(days)
      ELSE IF hours > 0 THEN ToString(hours) \o " hour" \o plural(hours)
      ELSE IF minutes > 0 THEN ToString(minutes) \o " minute" \o plural(minutes)
      ELSE ToString(seconds) \o " second" \o plural(seconds)

formatDuration(ms) ==
  LET seconds == ms \div 1000
      minutes == seconds \div 60
      hours   == minutes \div 60
      days    == hours \div 24
      plural(n) == IF n > 1 THEN "s" ELSE ""
  IN  IF days > 0 THEN ToString(days) \o " day" \o plural(days)
      ELSE IF hours > 0 THEN ToString(hours) \o " hour" \o plural(hours)
      ELSE IF minutes > 0 THEN ToString(minutes) \o " minute" \o plural(minutes)
      ELSE ToString(seconds) \o " second" \o plural(seconds)

\* isDateValid with the blackout check moved in front of the two bounds.
isDateValidBlackoutFirst(date, constraints) ==
  IF /\ ~IsNull(constraints.blackoutDates)
     /\ LET bds == Val(constraints.blackoutDates)
        IN  \E i \in 1..Len(bds) : isSameDay(bds[i], date)
  THEN [valid |-> FALSE, error |-> Some("This date is not available")]
  ELSE IF ~IsNull(constraints.minDate) /\ DateLT(date, Val(constraints.minDate))
  THEN [valid |-> FALSE, error |-> Some("Date is before minimum allowed")]
  ELSE IF ~IsNull(constraints.maxDate) /\ DateGT(date, Val(constraints.maxDate))
  THEN [valid |-> FALSE, error |-> Some("Date is after maximum allowed")]
  ELSE IF /\ ~IsNull(constraints.disabledDays)
          /\ SeqIncludes(Val(constraints.disabledDays), getDay(date))
  THEN [valid |-> FALSE, error |-> Some("This day is disabled")]
  ELSE [valid |-> TRUE, error |-> Null]

isDateValid(date, constraints) ==
  IF ~IsNull(constraints.minDate) /\ DateLT(date, Val(constraints.minDate))
  THEN [valid |-> FALSE, error |-> Some("Date is before minimum allowed")]
  ELSE IF ~IsNull(constraints.maxDate) /\ DateGT(date, Val(constraints.maxDate))
  THEN [valid |-> FALSE, error |-> Some("Date is after maximum allowed")]
  ELSE IF /\ ~IsNull(constraints.blackoutDates)
          /\ LET bds == Val(constraints.blackoutDates)
             IN  \E i \in 1..Len(bds) : isSameDay(bds[i], date)
  THEN [valid |-> FALSE, error |-> Some("This date is not available")]
  ELSE IF /\ ~IsNull(constraints.disabledDays)
          /\ SeqIncludes(Val(constraints.disabledDays), getDay(date))
  THEN [valid |-> FALSE, error |-> Some("This day is disabled")]
  ELSE [valid |-> TRUE, error |-> Null]

\* isRangeValid, lines 66-75: the completeness errors.
CompletenessErrors(range) ==
  LET e1 == IF IsNull(range.start.date) \/ IsNull(range.start.time)
            THEN <<"Start date and time are required">> ELSE <<>>
  IN  IF IsNull(range.end.date) \/ IsNull(range.end.time)
      THEN Append(e1, "End date and time are required") ELSE e1

\* isRangeValid, lines 81-94: isDateValid on each date that is present.
SideValidation(date, constraints) ==
  IF IsNull(date) THEN [valid |-> TRUE, error |-> Null]
  ELSE isDateValid(Val(date), constraints)

\* The end date validated only when the start date passed.
PerSideErrorsFirstOnly(errors, startValidation, endValidation) ==
  IF ~startValidation.valid
  THEN Append(errors, "Start: " \o Val(startValidation.error))
  ELSE IF ~endValidation.valid
  THEN Append(errors, "End: " \o Val(endValidation.error))
  ELSE errors

PerSideErrors(errors, startValidation, endValidation) ==
  LET e3 == IF ~startValidation.valid
            THEN Append(errors, "Start: " \o Val(startValidation.error))
            ELSE errors
  IN  IF ~endValidation.valid
      THEN Append(e3, "End: " \o Val(endValidation.error))
      ELSE e3

\* isRangeValid, lines 98-118: the order and the duration of the combined
\* values.
OrderErrors(constraints, errors, startTime, endTime) ==
  LET duration == DiffMs(endTime, startTime)
      e5 == IF DateGE(startTime, endTime)
            THEN Append(errors, "Start must be before end")
            ELSE errors
      e6 == IF /\ TruthyNumber(constraints.minDuration)
               /\ duration < Val(constraints.minDuration)
            THEN Append(e5, "Duration must be at least "
                              \o formatDuration(Val(constraints.minDuration)))
            ELSE e5
  IN  IF /\ TruthyNumber(constraints.maxDuration)
         /\ duration > Val(constraints.maxDuration)
      THEN Append(e6, "Duration must not exceed "
                        \o formatDuration(Val(constraints.maxDuration)))
      ELSE e6

\* range.start.time || '00:00'
TimeOrMidnight(time) == IF IsNull(time) THEN [hh |-> 0, mm |-> 0] ELSE Val(time)

\* isRangeValid, lines 81-121: the checks after the completeness return,
\* appending to the errors found so far.
RangeChecks(range, constraints, errors) ==
  CHOOSE r \in
    { IF IsNull(range.start.date) \/ IsNull(range.end.date)
      THEN [valid |-> Len(e4) = 0, errors |-> e4]
      ELSE CHOOSE q \in
             { [valid |-> Len(e7) = 0, errors |-> e7] :
                 e7 \in { OrderErrors(constraints, e4, startTime, endTime) :
                            startTime \in {combineDateTime(Val(range.start.date),
                                             TimeOrMidnight(range.start.time))},
                            endTime \in {combineDateTime(Val(range.end.date),
                                           TimeOrMidnight(range.end.time))} } } : TRUE :
        e4 \in { PerSideErrors(errors, startValidation, endValidation) :
                   startValidation \in {SideValidation(range.start.date, constraints)},
                   endValidation \in {SideValidation(range.end.date, constraints)} } } : TRUE

\* isRangeValid without the return after the completeness errors.
isRangeValidNoReturn(range, constraints) ==
  RangeChecks(range, constraints, CompletenessErrors(range))

isRangeValid(range, constraints) ==
  LET errors == CompletenessErrors(range)
  IN  IF Len(errors) > 0 THEN [valid |-> FALSE, errors |-> errors]
      ELSE RangeChecks(range, constraints, errors)

(***************************************************************************)
(* timezone.ts (the second half of dateState.ts)                           *)
(***************************************************************************)
\* The catalog of zone identifiers.
getAllTimezones ==
  << "UTC", "GMT",
     "America/New_York", "America/Chicago", "America/Denver",
     "America/Los_Angeles", "America/Anchorage", "Pacific/Honolulu",
     "America/Toronto", "America/Mexico_City", "America/Buenos_Aires",
     "America/Sao_Paulo",
     "Europe/London", "Europe/Paris", "Europe/Berlin", "Europe/Amsterdam",
     "Europe/Brussels", "Europe/Vienna", "Europe/Prague", "Europe/Warsaw",
     "Europe/Moscow", "Europe/Istanbul",
     "Asia/Dubai", "Asia/Kolkata", "Asia/Bangkok", "Asia/Singapore",
     "Asia/Hong_Kong", "Asia/Shanghai", "Asia/Tokyo", "Asia/Seoul",
     "Asia/Jakarta", "Asia/Manila",
     "Australia/Sydney", "Australia/Melbourne", "Australia/Brisbane",
     "Australia/Perth", "Australia/Adelaide",
     "Pacific/Auckland", "Pacific/Fiji" >>

\* Intl.DateTimeFormat('en-US', {timeZone, year: 'numeric', month: '2-digit',
\* day: '2-digit', hour: '2-digit', minute: '2-digit', second: '2-digit',
\* hour12: false}).formatToParts(date), each part read back with parseInt:
\* the wall-clock fields of the instant in the zone (month 1..12, hour 0..23).
FormatToParts(date, timezone) ==
  CHOOSE r \in
    { [year   |-> CivilFromDays(wall \div 1440).year,
       month  |-> CivilFromDays(wall \div 1440).month + 1,
       day    |-> CivilFromDays(wall \div 1440).day,
       hour   |-> (wall % 1440) \div 60,
       minute |-> wall % 60,
       second |-> date.ms \div 1000] :
        wall \in {date.t + ZoneOffset(timezone, date.t)} } : TRUE

\* The timeZoneName part under timeZoneName: 'shortOffset', as the pieces of
\* its text: "GMT", "GMT-5", "GMT+9", "GMT+5:30".
ShortOffsetText(off, mag, sign) ==
  IF off = 0 THEN [text |-> "GMT", sign |-> "", hours |-> <<>>, minutes |-> <<>>]
  ELSE IF mag % 60 = 0
  THEN [text |-> "GMT", sign |-> sign, hours |-> <<mag \div 60>>, minutes |-> <<>>]
  ELSE [text |-> "GMT", sign |-> sign, hours |-> <<mag \div 60>>, minutes |-> <<mag % 60>>]

ShortOffsetName(date, timezone) ==
  CHOOSE r \in
    { ShortOffsetText(off, IF off < 0 THEN -off ELSE off, IF off < 0 THEN "-" ELSE "+") :
        off \in {ZoneOffset(timezone, date.t)} } : TRUE

utcToTimezone(utcDate, timezone) ==
  CHOOSE r \in
    { NewDate(values.year, values.month - 1, values.day,
              values.hour, values.minute, values.second, 0) :
        values \in {FormatToParts(utcDate, timezone)} } : TRUE

\* tzPart.value.match(/GMT([+-]\d+)/), then parseInt(match[1]) * 60: the
\* signed digits that follow "GMT", up to the first character that is no
\* digit; no match when no sign follows "GMT".
ParsedOffset(tzPart) ==
  IF tzPart.hours = <<>> THEN 0
  ELSE IF tzPart.sign = "-" THEN (0 - tzPart.hours[1]) * 60
  ELSE tzPart.hours[1] * 60

timezoneToUtc(localDate, timezone) ==
  [t  |-> localDate.t - ParsedOffset(ShortOffsetName(localDate, timezone)),
   ms |-> localDate.ms]

\* getOffsetMinutes measured against the host's wall clock instead of the
\* UTC formatter's.
getOffsetMinutesFromHostClock(date, timezone) ==
  CHOOSE r \in
    { (tzTime.hour * 60 + tzTime.minute) - (getHours(date) * 60 + getMinutes(date)) :
        tzTime \in {FormatToParts(date, timezone)} } : TRUE

getOffsetMinutes(date, timezone) ==
  CHOOSE r \in
    { (tzTime.hour * 60 + tzTime.minute) - (utcTime.hour * 60 + utcTime.minute) :
        utcTime \in {FormatToParts(date, "UTC")},
        tzTime \in {FormatToParts(date, timezone)} } : TRUE

isDaylightSavings(date, timezone) ==
  getOffsetMinutes(date, timezone)
    > getOffsetMinutes(setMonth(date, getMonth(date) + 6), timezone)

\* The timeZoneName part under timeZoneName: 'long' (en-US).
LongZoneName(date, timezone) ==
  CASE timezone = "UTC" -> "Coordinated Universal Time"
    [] timezone = "GMT" -> "Greenwich Mean Time"
    [] timezone = "Asia/Kolkata" -> "India Standard Time"
    [] timezone = "Asia/Tokyo" -> "Japan Standard Time"
    [] timezone = "Africa/Nairobi" -> "East Africa Time"
    [] timezone = "America/New_York" ->
         IF ZoneOffset(timezone, date.t) = -240
         THEN "Eastern Daylight Time" ELSE "Eastern Standard Time"
    [] timezone = "Europe/London" ->
         IF ZoneOffset(timezone, date.t) = 60
         THEN "British Summer Time" ELSE "Greenwich Mean Time"
    [] timezone = "Australia/Adelaide" ->
         IF ZoneOffset(timezone, date.t) = 630
         THEN "Australian Central Daylight Time"
         ELSE "Australian Central Standard Time"

\* tzName.substring(0, 4)
Substring04(name) ==
  CASE name = "Coordinated Universal Time" -> "Coor"
    [] name = "Greenwich Mean Time" -> "Gree"
    [] name = "India Standard Time" -> "Indi"
    [] name = "Japan Standard Time" -> "Japa"
    [] name = "East Africa Time" -> "East"
    [] name = "Eastern Daylight Time" -> "East"
    [] name = "Eastern Standard Time" -> "East"
    [] name = "British Summer Time" -> "Brit"
    [] name = "Australian Central Daylight Time" -> "Aust"
    [] name = "Australian Central Standard Time" -> "Aust"

\* new Date(date.toLocaleString('en-US', {timeZone})): the text
\* "M/D/YYYY, h:mm:ss AM" of the instant's wall clock in the zone, parsed
\* back as a local time of the host.
LocaleStringDate(date, timezone) ==
  CHOOSE r \in
    { NewDate(values.year, values.month - 1, values.day,
              values.hour, values.minute, values.second, 0) :
        values \in {FormatToParts(date, timezone)} } : TRUE

getTimezoneInfo(date, timezone) ==
  CHOOSE r \in
    { [name         |-> timezone,
       offset       |-> DiffMs(utcDate, tzDate) \div 60000,
       abbreviation |-> Substring04(LongZoneName(date, timezone)),
       isDST        |-> isDaylightSavings(date, timezone)] :
        utcDate \in {LocaleStringDate(date, "UTC")},
        tzDate \in {LocaleStringDate(date, timezone)} } : TRUE

getStartOfDay(date, timezone) ==
  CHOOSE r \in
    { timezoneToUtc(NewDate(values.year, values.month - 1, values.day, 0, 0, 0, 0),
                    timezone) :
        values \in {FormatToParts(date, timezone)} } : TRUE

getEndOfDay(date, timezone) ==
  CHOOSE r \in
    { timezoneToUtc(NewDate(values.year, values.month - 1, values.day, 23, 59, 59, 999),
                    timezone) :
        values \in {FormatToParts(date, timezone)} } : TRUE

(***************************************************************************)
(* Presets.  getRange takes baseDate and timezone and reads new Date();    *)
(* now is what the system clock reads during the call.                     *)
(***************************************************************************)
\* The ids of getRelativePresets(), in order.
getRelativePresets ==
  << "today", "yesterday", "tomorrow", "last7days", "last30days",
     "thisMonth", "lastMonth", "lastQuarter" >>

\* today, yesterday, tomorrow: the day of a Date from 00:00:00.000 to
\* 23:59:59.999.
WholeDay(day) ==
  [start |-> setHours(day, 0, 0, 0, 0), startTime |-> "00:00",
   end |-> setHours(day, 23, 59, 59, 999), endTime |-> "23:59"]

\* last7days, last30days, lastQuarter: start.setDate(start.getDate() - back).
LastDays(now, back) ==
  [start |-> setHours(setDate(now, getDate(now) - back), 0, 0, 0, 0),
   startTime |-> "00:00",
   end |-> setHours(now, 23, 59, 59, 999), endTime |-> "23:59"]

thisMonth(now) ==
  [start |-> setHours(setDate(now, 1), 0, 0, 0, 0), startTime |-> "00:00",
   end |-> setHours(setDate(setMonth(now, getMonth(now) + 1), 0), 23, 59, 59, 999),
   endTime |-> "23:59"]

lastMonth(now) ==
  [start |-> setHours(setDate(setMonth(now, getMonth(now) - 1), 1), 0, 0, 0, 0),
   startTime |-> "00:00",
   end |-> setHours(setDate(now, 0), 23, 59, 59, 999), endTime |-> "23:59"]

getRange(id, baseDate, timezone, now) ==
  CASE id = "today" -> WholeDay(now)
    [] id = "yesterday" -> WholeDay(setDate(now, getDate(now) - 1))
    [] id = "tomorrow" -> WholeDay(setDate(now, getDate(now) + 1))
    [] id = "last7days" -> LastDays(now, 6)
    [] id = "last30days" -> LastDays(now, 29)
    [] id = "thisMonth" -> thisMonth(now)
    [] id = "lastMonth" -> lastMonth(now)
    [] id = "lastQuarter" -> LastDays(now, 89)

(***************************************************************************)
(* DateTimeRangePicker and the CalendarGrid it renders.  picker is the     *)
(* component's state (useState) with its constraints and presets props,    *)
(* onRangeChange the argument of the latest invocation of the callback.    *)
(***************************************************************************)
\* isDateDisabled without the comparison with maxDate.
isDateDisabledNoMax(date, constraints) ==
  \/ ~IsNull(constraints.disabledDays)
       /\ SeqIncludes(Val(constraints.disabledDays), getDay(date))
  \/ ~IsNull(constraints.blackoutDates)
       /\ \E i \in 1..Len(Val(constraints.blackoutDates)) :
            isSameDay(Val(constraints.blackoutDates)[i], date)
  \/ ~IsNull(constraints.minDate) /\ DateLT(date, Val(constraints.minDate))

\* CalendarGrid: a cell is disabled, and its click ignored.
isDateDisabled(date, constraints) ==
  \/ ~IsNull(constraints.disabledDays)
       /\ SeqIncludes(Val(constraints.disabledDays), getDay(date))
  \/ ~IsNull(constraints.blackoutDates)
       /\ \E i \in 1..Len(Val(constraints.blackoutDates)) :
            isSameDay(Val(constraints.blackoutDates)[i], date)
  \/ ~IsNull(constraints.minDate) /\ DateLT(date, Val(constraints.minDate))
  \/ ~IsNull(constraints.maxDate) /\ DateGT(date, Val(constraints.maxDate))

\* The 'HH:MM' text of a preset as the hours and minutes it stands for
\* (time.split(':').map(Number)).
TimeOfText(text) ==
  CASE text = "00:00" -> [hh |-> 0, mm |-> 0]
    [] text = "23:59" -> [hh |-> 23, mm |-> 59]

\* The range handleRangeChange validates and hands to onRangeChange.
PickerRange(p) ==
  [start |-> [date |-> p.startDate, time |-> p.startTime],
   end   |-> [date |-> p.endDate, time |-> p.endTime]]

handleRangeChange(p) ==
  CHOOSE r \in
    { [picker |-> [p EXCEPT !.errors = validation.errors],
       invoked |-> IF validation.valid THEN Some(PickerRange(p)) ELSE Null] :
        validation \in {isRangeValid(PickerRange(p), p.constraints)} } : TRUE

handlePresetClick(p, range) ==
  CHOOSE r \in
    { [picker |-> [p EXCEPT !.startDate = Some(rg.start),
                            !.startTime = Some(TimeOfText(rg.startTime)),
                            !.endDate = Some(rg.end),
                            !.endTime = Some(TimeOfText(rg.endTime))],
       invoked |-> Some([start |-> [date |-> Some(rg.start),
                                    time |-> Some(TimeOfText(rg.startTime))],
                         end   |-> [date |-> Some(rg.end),
                                    time |-> Some(TimeOfText(rg.endTime))]])] :
        rg \in {range} } : TRUE

(***************************************************************************)
(* The calls.  Every function of the two files is pure, so a behaviour is  *)
(* one call: the host's timezone and the arguments are drawn from the      *)
(* sets below, and the call's action records the arguments and the         *)
(* result.  utcToTimezone may be followed by timezoneToUtc on its result.  *)
(***************************************************************************)
\* Number of consecutive calendar days the validator's dates are drawn from.
MaxDays == 2

HostZones == {"UTC", "America/New_York", "Asia/Kolkata"}

\* Zones of the catalog, and Africa/Nairobi, a zone of the tz database
\* that the catalog does not list.
ModelledZones ==
  {"UTC", "America/New_York", "Asia/Kolkata", "Asia/Tokyo",
   "Europe/London", "Australia/Adelaide", "Africa/Nairobi"}

\* Identifiers that Intl.DateTimeFormat rejects with a RangeError.
InvalidZones == {"Mars/Phobos"}

\* The functions whose first statement constructs an Intl.DateTimeFormat
\* with the caller's zone.
ZoneFunctions ==
  {"getOffsetMinutes", "utcToTimezone", "timezoneToUtc", "isDaylightSavings",
   "getTimezoneInfo", "getStartOfDay", "getEndOfDay"}

\* new Date(2025, 0, 15 + i, h): the days of the test suite, at midnight
\* (what the calendar grid hands over) and at a time of day.
Day(i, h) == NewDate(2025, 0, 15 + i, h, 0, 0, 0)

DateInputs == { Day(i, h) : i \in 0..(MaxDays - 1), h \in {0, 17} }

TimeInputs == { [hh |-> 9, mm |-> 0], [hh |-> 9, mm |-> 30], [hh |-> 11, mm |-> 0] }

Optional(S) == {Null} \cup { Some(x) : x \in S }

RangeInputs ==
  [start : [date : Optional(DateInputs), time : Optional(TimeInputs)],
   end   : [date : Optional(DateInputs), time : Optional(TimeInputs)]]

\* Constraint sets for isDateValid: the four date constraints, alone and
\* together, with blackout entries at other times of day than the dates.
DateConstraintInputs ==
  [minDate       : Optional({Day(1, 0), Day(0, 9)}),
   maxDate       : Optional({Day(0, 0), Day(1, 9)}),
   blackoutDates : Optional({<<>>, <<Day(0, 9)>>, <<Day(2, 0), Day(1, 23)>>}),
   minDuration   : {Null},
   maxDuration   : {Null},
   disabledDays  : Optional({<<>>, <<3>>, <<0, 4>>})]

\* Constraint sets for isRangeValid (durations in milliseconds: 0, 30
\* minutes, 2 hours).
RangeConstraintInputs ==
  [minDate       : Optional({Day(1, 0)}),
   maxDate       : Optional({Day(0, 0)}),
   blackoutDates : Optional({<<Day(0, 9)>>}),
   minDuration   : Optional({0, 7200000}),
   maxDuration   : Optional({0, 1800000}),
   disabledDays  : Optional({<<4>>})]

\* Instants for the timezone functions: a winter day, a summer day and the
\* two days of 2025 on which America/New_York changes its clocks, at every
\* half hour of the host's day, with and without a fraction of a minute.
TzDays == { <<0, 15>>, <<6, 15>>, <<2, 9>>, <<10, 2>> }

TzInstants ==
  { NewDate(2025, md[1], md[2], h, mi, 0, ms) :
      md \in TzDays, h \in 0..23, mi \in {0, 30}, ms \in {0, 1500} }

\* Readings of the system clock: ordinary days, the last days of long and
\* short months, the first and last day of a year and a day on which
\* America/New_York changes its clocks and the day six days after it, at
\* three times of day.
ClockDays ==
  { <<2025, 5, 10>>, <<2025, 0, 15>>, <<2025, 0, 31>>, <<2025, 2, 29>>,
    <<2025, 2, 30>>, <<2025, 2, 31>>, <<2025, 4, 31>>, <<2025, 1, 28>>,
    <<2025, 11, 31>>, <<2025, 0, 1>>, <<2025, 2, 9>>, <<2025, 2, 15>> }

ClockInstants ==
  { NewDate(d[1], d[2], d[3], h, 30, 15, 250) : d \in ClockDays, h \in {2, 12, 23} }

\* The baseDate and timezone arguments of getRange, both optional.
BaseDateInputs == Optional({NewDate(2025, 5, 10, 12, 0, 0, 0)})

PresetZoneInputs == Optional({"Asia/Tokyo"})

\* Largest count of a unit in the durations given to formatDuration.
MaxUnits == 3

\* Durations in milliseconds: 0, less than a second, and up to MaxUnits
\* seconds, minutes, hours and days, exact and with a remainder.
DurationInputs ==
  {0, 999} \cup
  { k * u + r : k \in 1..MaxUnits, u \in {1000, 60000, 3600000, 86400000},
                r \in {0, 1, 999} } \cup
  { k * u + u \div 2 : k \in 1..MaxUnits, u \in {1000, 60000, 3600000, 86400000} } \cup
  { k * u + (u - 1) : k \in 1..MaxUnits, u \in {1000, 60000, 3600000, 86400000} }

Init ==
  /\ host \in HostZones
  /\ pc = "idle"
  /\ op = "none"
  /\ args = Null
  /\ ret = Null
  /\ picker = Null
  /\ onRangeChange = Null

CallIsDateValid ==
  /\ pc = "idle"
  /\ \E date \in DateInputs, constraints \in DateConstraintInputs :
       /\ args' = [date |-> date, constraints |-> constraints]
       /\ ret' = isDateValid(date, constraints)
  /\ op' = "isDateValid"
  /\ pc' = "done"
  /\ UNCHANGED <<host, picker, onRangeChange>>

CallIsRangeValid ==
  /\ pc = "idle"
  /\ \E range \in RangeInputs, constraints \in RangeConstraintInputs :
       /\ args' = [range |-> range, constraints |-> constraints]
       /\ ret' = isRangeValid(range, constraints)
  /\ op' = "isRangeValid"
  /\ pc' = "done"
  /\ UNCHANGED <<host, picker, onRangeChange>>

CallGetOffsetMinutes ==
  /\ pc = "idle"
  /\ \E date \in TzInstants, timezone \in ModelledZones :
       /\ args' = [date |-> date, timezone |-> timezone]
       /\ ret' = getOffsetMinutes(date, timezone)
  /\ op' = "getOffsetMinutes"
  /\ pc' = "done"
  /\ UNCHANGED <<host, picker, onRangeChange>>

CallIsDaylightSavings ==
  /\ pc = "idle"
  /\ \E date \in TzInstants, timezone \in ModelledZones :
       /\ args' = [date |-> date, timezone |-> timezone]
       /\ ret' = isDaylightSavings(date, timezone)
  /\ op' = "isDaylightSavings"
  /\ pc' = "done"
  /\ UNCHANGED <<host, picker, onRangeChange>>

CallUtcToTimezone ==
  /\ pc = "idle"
  /\ \E utcDate \in TzInstants, timezone \in ModelledZones :
       /\ args' = [utcDate |-> utcDate, timezone |-> timezone]
       /\ ret' = utcToTimezone(utcDate, timezone)
  /\ op' = "utcToTimezone"
  /\ pc' = "done"
  /\ UNCHANGED <<host, picker, onRangeChange>>

\* timezoneToUtc on a civil date-time of the caller's (origin is null), or
\* on the Date utcToTimezone has just returned, with the same zone (origin
\* is the instant that was converted).
CallTimezoneToUtc ==
  /\ \/ /\ pc = "idle"
        /\ \E localDate \in TzInstants, timezone \in ModelledZones :
             /\ args' = [localDate |-> localDate, timezone |-> timezone,
                         origin |-> Null]
             /\ ret' = timezoneToUtc(localDate, timezone)
     \/ /\ pc = "done"
        /\ op = "utcToTimezone"
        /\ args' = [localDate |-> ret, timezone |-> args.timezone,
                    origin |-> Some(args.utcDate)]
        /\ ret' = timezoneToUtc(ret, args.timezone)
  /\ op' = "timezoneToUtc"
  /\ pc' = "done"
  /\ UNCHANGED <<host, picker, onRangeChange>>

CallGetTimezoneInfo ==
  /\ pc = "idle"
  /\ \E date \in TzInstants, timezone \in ModelledZones :
       /\ args' = [date |-> date, timezone |-> timezone]
       /\ ret' = getTimezoneInfo(date, timezone)
  /\ op' = "getTimezoneInfo"
  /\ pc' = "done"
  /\ UNCHANGED <<host, picker, onRangeChange>>

CallGetStartOfDay ==
  /\ pc = "idle"
  /\ \E date \in TzInstants, timezone \in ModelledZones :
       /\ args' = [date |-> date, timezone |-> timezone]
       /\ ret' = getStartOfDay(date, timezone)
  /\ op' = "getStartOfDay"
  /\ pc' = "done"
  /\ UNCHANGED <<host, picker, onRangeChange>>

CallGetEndOfDay ==
  /\ pc = "idle"
  /\ \E date \in TzInstants, timezone \in ModelledZones :
       /\ args' = [date |-> date, timezone |-> timezone]
       /\ ret' = getEndOfDay(date, timezone)
  /\ op' = "getEndOfDay"
  /\ pc' = "done"
  /\ UNCHANGED <<host, picker, onRangeChange>>

\* A call with an identifier that is no time zone: the Intl.DateTimeFormat
\* constructor throws a RangeError, which no function catches.
CallWithInvalidZone ==
  /\ pc = "idle"
  /\ \E name \in ZoneFunctions, date \in TzInstants, timezone \in InvalidZones :
       /\ op' = name
       /\ args' = [date |-> date, timezone |-> timezone]
  /\ ret' = "RangeError"
  /\ pc' = "threw"
  /\ UNCHANGED <<host, picker, onRangeChange>>

\* getRange of a preset, and a second call of the same preset with the
\* same arguments when the system clock has moved on (first is the range
\* the first call returned).
CallGetRange ==
  /\ \/ /\ pc = "idle"
        /\ \E i \in 1..Len(getRelativePresets), baseDate \in BaseDateInputs,
              timezone \in PresetZoneInputs, now \in ClockInstants :
             /\ args' = [preset |-> getRelativePresets[i], baseDate |-> baseDate,
                         timezone |-> timezone, now |-> now, first |-> Null]
             /\ ret' = getRange(getRelativePresets[i], baseDate, timezone, now)
     \/ /\ pc = "done"
        /\ op = "getRange"
        /\ IsNull(args.first)
        /\ \E now \in ClockInstants :
             /\ DateLT(args.now, now)
             /\ args' = [args EXCEPT !.now = now, !.first = Some(ret)]
             /\ ret' = getRange(args.preset, args.baseDate, args.timezone, now)
  /\ op' = "getRange"
  /\ pc' = "done"
  /\ UNCHANGED <<host, picker, onRangeChange>>

CallFormatDuration ==
  /\ pc = "idle"
  /\ \E ms \in DurationInputs :
       /\ args' = [ms |-> ms]
       /\ ret' = formatDuration(ms)
  /\ op' = "formatDuration"
  /\ pc' = "done"
  /\ UNCHANGED <<host, picker, onRangeChange>>

Next ==
  \/ CallIsDateValid
  \/ CallIsRangeValid
  \/ CallGetOffsetMinutes
  \/ CallIsDaylightSavings
  \/ CallUtcToTimezone
  \/ CallTimezoneToUtc
  \/ CallGetTimezoneInfo
  \/ CallGetStartOfDay
  \/ CallGetEndOfDay
  \/ CallWithInvalidZone
  \/ CallGetRange
  \/ CallFormatDuration

Spec == Init /\ [][Next]_vars

(***************************************************************************)
(* The picker: a mounted DateTimeRangePicker and the user's clicks and     *)
(* edits.                                                                  *)
(***************************************************************************)
NoConstraints ==
  [minDate |-> Null, maxDate |-> Null, blackoutDates |-> Null,
   minDuration |-> Null, maxDuration |-> Null, disabledDays |-> Null]

\* The constraints prop: none, a maximum duration of 30 minutes, a maxDate.
PickerConstraintInputs ==
  { NoConstraints,
    [NoConstraints EXCEPT !.maxDuration = Some(1800000)],
    [NoConstraints EXCEPT !.maxDate = Some(Day(0, 0))] }

\* The presets prop.
PickerPresets == {"today", "last7days"}

\* The cells of the calendar grid the user clicks: new Date(year, month, day).
GridDates == { Day(0, 0), Day(1, 0) }

\* The times the user types into the two TimeInputs.
PickerTimes == { [hh |-> 9, mm |-> 0], [hh |-> 9, mm |-> 30] }

\* What the system clock reads when a preset is clicked.
PickerClock == { NewDate(2025, 0, 15, 12, 30, 15, 250) }

PickerInit ==
  /\ host \in HostZones
  /\ pc = "mounted"
  /\ op = "none"
  /\ args = Null
  /\ ret = Null
  /\ \E constraints \in PickerConstraintInputs :
       picker = [startDate |-> Null, startTime |-> Null, endDate |-> Null,
                 endTime |-> Null, errors |-> <<>>, constraints |-> constraints]
  /\ onRangeChange = Null

\* handleStartDateSelect, called by the grid for a cell that is not
\* disabled.
SelectStartDate ==
  /\ pc = "mounted"
  /\ \E date \in GridDates :
       /\ ~isDateDisabled(date, picker.constraints)
       /\ picker' = [picker EXCEPT !.startDate = Some(date)]
  /\ UNCHANGED <<host, pc, op, args, ret, onRangeChange>>

SelectEndDate ==
  /\ pc = "mounted"
  /\ \E date \in GridDates :
       /\ ~isDateDisabled(date, picker.constraints)
       /\ picker' = [picker EXCEPT !.endDate = Some(date)]
  /\ UNCHANGED <<host, pc, op, args, ret, onRangeChange>>

\* onChange of the two TimeInputs.
EditStartTime ==
  /\ pc = "mounted"
  /\ \E time \in PickerTimes : picker' = [picker EXCEPT !.startTime = Some(time)]
  /\ UNCHANGED <<host, pc, op, args, ret, onRangeChange>>

EditEndTime ==
  /\ pc = "mounted"
  /\ \E time \in PickerTimes : picker' = [picker EXCEPT !.endTime = Some(time)]
  /\ UNCHANGED <<host, pc, op, args, ret, onRangeChange>>

ClickPreset ==
  /\ pc = "mounted"
  /\ \E id \in PickerPresets, now \in PickerClock :
       LET r == handlePresetClick(picker, getRange(id, Null, Null, now))
       IN  /\ picker' = r.picker
           /\ onRangeChange' = r.invoked
  /\ UNCHANGED <<host, pc, op, args, ret>>

ClickApply ==
  /\ pc = "mounted"
  /\ LET r == handleRangeChange(picker)
     IN  /\ picker' = r.picker
         /\ onRangeChange' = IF IsNull(r.invoked) THEN onRangeChange ELSE r.invoked
  /\ UNCHANGED <<host, pc, op, args, ret>>

ClickClear ==
  /\ pc = "mounted"
  /\ picker' = [picker EXCEPT !.startDate = Null, !.startTime = Null,
                              !.endDate = Null, !.endTime = Null, !.errors = <<>>]
  /\ UNCHANGED <<host, pc, op, args, ret, onRangeChange>>

PickerNext ==
  \/ SelectStartDate
  \/ SelectEndDate
  \/ EditStartTime
  \/ EditEndTime
  \/ ClickPreset
  \/ ClickApply
  \/ ClickClear

PickerSpec == PickerInit /\ [][PickerNext]_vars

(***************************************************************************)
(* The core operations as their caller sees them.  A Date, a range and a   *)
(* constraint set are objects the caller keeps: a call is its result       *)
(* together with the values the caller's argument objects hold when it     *)
(* returns.  Every setter in the eight functions is applied to a copy      *)
(* (new Date(date)) or to a Date the function constructed itself.          *)
(***************************************************************************)
isDateValidCall(date, constraints) ==
  [ret |-> isDateValid(date, constraints),
   args |-> [date |-> date, constraints |-> constraints]]

isRangeValidCall(range, constraints) ==
  [ret |-> isRangeValid(range, constraints),
   args |-> [range |-> range, constraints |-> constraints]]

\* combineDateTime with combined = date in place of combined = new Date(date).
combineDateTimeInPlace(date, time) ==
  CHOOSE r \in
    { [ret |-> combined, args |-> [date |-> combined, time |-> time]] :
        combined \in {setHours(date, time.hh, time.mm, 0, 0)} } : TRUE

\* combined = new Date(date); combined.setHours(hours, minutes, 0, 0)
combineDateTimeCall(date, time) ==
  CHOOSE r \in
    { [ret |-> combined, args |-> [date |-> date, time |-> time]] :
        combined \in {setHours(date, time.hh, time.mm, 0, 0)} } : TRUE

\* current and end are copies; each element pushed is a copy of current.
getDateRangeCall(startDate, endDate) ==
  [ret |-> getDateRange(startDate, endDate),
   args |-> [startDate |-> startDate, endDate |-> endDate]]

\* start and end are copies.
daysBetweenCall(startDate, endDate) ==
  [ret |-> daysBetween(startDate, endDate),
   args |-> [startDate |-> startDate, endDate |-> endDate]]

\* d1 and d2 are copies; setMonth is applied to d2.
isDaylightSavingsCall(date, timezone) ==
  [ret |-> isDaylightSavings(date, timezone),
   args |-> [date |-> date, timezone |-> timezone]]

getStartOfDayCall(date, timezone) ==
  [ret |-> getStartOfDay(date, timezone),
   args |-> [date |-> date, timezone |-> timezone]]

getEndOfDayCall(date, timezone) ==
  [ret |-> getEndOfDay(date, timezone),
   args |-> [date |-> date, timezone |-> timezone]]

\* A core operation by name, on a record of its arguments.
CoreCall(name, a) ==
  CASE name = "isDateValid" -> isDateValidCall(a.date, a.constraints)
    [] name = "isRangeValid" -> isRangeValidCall(a.range, a.constraints)
    [] name = "combineDateTime" -> combineDateTimeCall(a.date, a.time)
    [] name = "getDateRange" -> getDateRangeCall(a.startDate, a.endDate)
    [] name = "daysBetween" -> daysBetweenCall(a.startDate, a.endDate)
    [] name = "isDaylightSavings" -> isDaylightSavingsCall(a.date, a.timezone)
    [] name = "getStartOfDay" -> getStartOfDayCall(a.date, a.timezone)
    [] name = "getEndOfDay" -> getEndOfDayCall(a.date, a.timezone)

\* Constraint sets of the shared-input calls.
CoreConstraintInputs ==
  { NoConstraints,
    [NoConstraints EXCEPT !.minDate = Some(Day(1, 0)), !.disabledDays = Some(<<4>>)],
    [NoConstraints EXCEPT !.maxDate = Some(Day(0, 0)), !.blackoutDates = Some(<<Day(0, 9)>>)],
    [NoConstraints EXCEPT !.minDuration = Some(7200000), !.maxDuration = Some(1800000)] }

CoreRangeInputs ==
  [start : [date : Optional(DateInputs), time : Optional({[hh |-> 9, mm |-> 0]})],
   end   : [date : Optional(DateInputs), time : Optional({[hh |-> 9, mm |-> 30]})]]

\* Instants of the days on which America/New_York changes its clocks and
\* of a winter day, at three times of day.
CoreInstants ==
  { NewDate(2025, md[1], md[2], h, 30, 15, 250) :
      md \in {<<0, 15>>, <<2, 9>>, <<10, 2>>}, h \in {1, 12, 23} }

\* Dates with a time of day, two days before the days of DateInputs.
CoreDayInputs ==
  DateInputs \cup { NewDate(2025, 0, 13, h, 30, 15, 250) : h \in {1, 23} }

CoreZones == {"UTC", "America/New_York", "Asia/Kolkata"}

CoreInit ==
  /\ host \in HostZones
  /\ pc = "caller"
  /\ op = "none"
  /\ args = Null
  /\ ret = Null
  /\ picker = Null
  /\ onRangeChange = Null

\* The first call of an operation on the caller's objects a: before and
\* after are the values of the objects when the call starts and returns.
FirstCall(name, a) ==
  /\ pc = "caller"
  /\ op' = name
  /\ args' = [before |-> a, after |-> CoreCall(name, a).args]
  /\ ret' = [first |-> CoreCall(name, a).ret, second |-> Null]
  /\ pc' = "called"
  /\ UNCHANGED <<host, picker, onRangeChange>>

CoreIsDateValid ==
  \E date \in DateInputs, constraints \in CoreConstraintInputs :
    FirstCall("isDateValid", [date |-> date, constraints |-> constraints])

CoreIsRangeValid ==
  \E range \in CoreRangeInputs, constraints \in CoreConstraintInputs :
    FirstCall("isRangeValid", [range |-> range, constraints |-> constraints])

CoreCombineDateTime ==
  \E date \in DateInputs \cup CoreInstants, time \in TimeInputs :
    FirstCall("combineDateTime", [date |-> date, time |-> time])

CoreGetDateRange ==
  \E startDate \in CoreDayInputs, endDate \in DateInputs :
    FirstCall("getDateRange", [startDate |-> startDate, endDate |-> endDate])

CoreDaysBetween ==
  \E startDate \in CoreDayInputs, endDate \in DateInputs :
    FirstCall("daysBetween", [startDate |-> startDate, endDate |-> endDate])

CoreIsDaylightSavings ==
  \E date \in CoreInstants, timezone \in CoreZones :
    FirstCall("isDaylightSavings", [date |-> date, timezone |-> timezone])

CoreGetStartOfDay ==
  \E date \in CoreInstants, timezone \in CoreZones :
    FirstCall("getStartOfDay", [date |-> date, timezone |-> timezone])

CoreGetEndOfDay ==
  \E date \in CoreInstants, timezone \in CoreZones :
    FirstCall("getEndOfDay", [date |-> date, timezone |-> timezone])

\* A second call of the operation by a caller that shares the objects of
\* the first, after the first has returned.
CoreSecondCall ==
  /\ pc = "called"
  /\ ret' = [ret EXCEPT !.second = Some(CoreCall(op, args.after).ret)]
  /\ pc' = "shared"
  /\ UNCHANGED <<host, op, args, picker, onRangeChange>>

CoreNext ==
  \/ CoreIsDateValid
  \/ CoreIsRangeValid
  \/ CoreCombineDateTime
  \/ CoreGetDateRange
  \/ CoreDaysBetween
  \/ CoreIsDaylightSavings
  \/ CoreGetStartOfDay
  \/ CoreGetEndOfDay
  \/ CoreSecondCall

CoreSpec == CoreInit /\ [][CoreNext]_vars

(***************************************************************************)
(* TimeInput and the useTimeInput hook.  A time is the text the component  *)
(* shows and emits, a string of characters.                                *)
(***************************************************************************)
CharAt(text, i) == SubSeq(text, i, i)

IsDigit(ch) == ch \in {"0", "1", "2", "3", "4", "5", "6", "7", "8", "9"}

DigitValue(ch) ==
  CASE ch = "0" -> 0 [] ch = "1" -> 1 [] ch = "2" -> 2 [] ch = "3" -> 3
    [] ch = "4" -> 4 [] ch = "5" -> 5 [] ch = "6" -> 6 [] ch = "7" -> 7
    [] ch = "8" -> 8 [] ch = "9" -> 9

\* e.target.value.replace(/\D/g, '')
RECURSIVE ReplaceNonDigits(_)
ReplaceNonDigits(text) ==
  IF Len(text) = 0 THEN ""
  ELSE (IF IsDigit(CharAt(text, 1)) THEN CharAt(text, 1) ELSE "")
         \o ReplaceNonDigits(SubSeq(text, 2, Len(text)))

\* Number(text) and parseInt(text) of a text of digits.
RECURSIVE NumberOfDigits(_)
NumberOfDigits(text) ==
  IF Len(text) = 0 THEN 0
  ELSE NumberOfDigits(SubSeq(text, 1, Len(text) - 1)) * 10
         + DigitValue(CharAt(text, Len(text)))

\* String(n).padStart(2, '0')
PadStart2(n) == IF Len(ToString(n)) < 2 THEN "0" \o ToString(n) ELSE ToString(n)

\* `${String(hours).padStart(2, '0')}:${String(minutes).padStart(2, '0')}`
TimeText(hours, minutes) == PadStart2(hours) \o ":" \o PadStart2(minutes)

\* The place of the first ':' of a text that has one.
ColonAt(text) ==
  CHOOSE i \in 1..Len(text) :
    CharAt(text, i) = ":" /\ \A j \in 1..(i - 1) : CharAt(text, j) # ":"

\* const [hours, minutes] = time.split(':').map(Number), for a text with
\* one ':' between two groups of digits.
SplitTime(text) ==
  [hours   |-> NumberOfDigits(SubSeq(text, 1, ColonAt(text) - 1)),
   minutes |-> NumberOfDigits(SubSeq(text, ColonAt(text) + 1, Len(text)))]

\* /^([01]\d|2[0-3]):([0-5]\d)$/.test(text)
MatchesTimeFormat(text) ==
  /\ Len(text) = 5
  /\ \/ CharAt(text, 1) \in {"0", "1"} /\ IsDigit(CharAt(text, 2))
     \/ CharAt(text, 1) = "2" /\ CharAt(text, 2) \in {"0", "1", "2", "3"}
  /\ CharAt(text, 3) = ":"
  /\ CharAt(text, 4) \in {"0", "1", "2", "3", "4", "5"}
  /\ IsDigit(CharAt(text, 5))

\* value || '00:00'
timeValue(value) == IF IsNull(value) \/ Val(value) = "" THEN "00:00" ELSE Val(value)

\* handleInputChange without the check of the minutes.
InputChangeNoMinuteCheck(val, error) ==
  IF Len(val) >= 2
  THEN LET hours   == SubSeq(val, 1, 2)
           minutes == SubSeq(val, 3, Len(val))
       IN  IF NumberOfDigits(hours) > 23
           THEN [error |-> Some("Hours must be 00-23"), emitted |-> Null]
           ELSE [error |-> Null,
                 emitted |-> IF Len(minutes) = 2
                             THEN Some(hours \o ":" \o minutes) ELSE Null]
  ELSE [error |-> error, emitted |-> Null]

\* TimeInput.handleInputChange on the text of the input element: the error
\* state it leaves (error is the state before) and the argument of
\* onChange, null when onChange is not called.
InputChangeOf(val, error) ==
  IF Len(val) >= 2
  THEN LET hours   == SubSeq(val, 1, 2)
           minutes == SubSeq(val, 3, Len(val))
       IN  IF NumberOfDigits(hours) > 23
           THEN [error |-> Some("Hours must be 00-23"), emitted |-> Null]
           ELSE IF Len(minutes) > 0 /\ NumberOfDigits(minutes) > 59
           THEN [error |-> Some("Minutes must be 00-59"), emitted |-> Null]
           ELSE [error |-> Null,
                 emitted |-> IF Len(minutes) = 2
                             THEN Some(hours \o ":" \o minutes) ELSE Null]
  ELSE [error |-> error, emitted |-> Null]

handleInputChange(typed, error) ==
  CHOOSE r \in
    { InputChangeOf(IF Len(val) > 4 THEN SubSeq(val, 1, 4) ELSE val, error) :
        val \in {ReplaceNonDigits(typed)} } : TRUE

\* ArrowRight with the hour left alone.
ArrowRightNoCarry(hours, minutes) == TimeText(hours, (minutes + 15) % 60)

ArrowRightOf(hours, minutes) ==
  TimeText((hours + (IF minutes + 15 >= 60 THEN 1 ELSE 0)) % 24, (minutes + 15) % 60)

ArrowLeftOf(hours, minutes) ==
  IF minutes - 15 < 0
  THEN TimeText(IF hours = 0 THEN 23 ELSE hours - 1, minutes - 15 + 60)
  ELSE TimeText(hours, minutes - 15)

\* TimeInput.handleKeyDown: the argument of onChange.
handleKeyDown(value, key) ==
  CHOOSE r \in
    { CASE key = "ArrowUp" -> TimeText((t.hours + 1) % 24, t.minutes)
        [] key = "ArrowDown" ->
             TimeText(IF t.hours = 0 THEN 23 ELSE t.hours - 1, t.minutes)
        [] key = "ArrowRight" -> ArrowRightOf(t.hours, t.minutes)
        [] key = "ArrowLeft" -> ArrowLeftOf(t.hours, t.minutes) :
        t \in {SplitTime(timeValue(value))} } : TRUE

\* useTimeInput
incrementHour(time) ==
  CHOOSE r \in
    { TimeText((t.hours + 1) % 24, t.minutes) : t \in {SplitTime(time)} } : TRUE

decrementHour(time) ==
  CHOOSE r \in
    { TimeText(IF t.hours = 0 THEN 23 ELSE t.hours - 1, t.minutes) :
        t \in {SplitTime(time)} } : TRUE

incrementMinute(time) ==
  CHOOSE r \in
    { TimeText(newTotalMinutes \div 60, newTotalMinutes % 60) :
        newTotalMinutes \in
          { (t.hours * 60 + t.minutes + 15) % (24 * 60) : t \in {SplitTime(time)} } } : TRUE

decrementMinute(time) ==
  CHOOSE r \in
    { TimeText(newTotalMinutes \div 60, newTotalMinutes % 60) :
        newTotalMinutes \in
          { IF t.hours * 60 + t.minutes - 15 < 0
            THEN t.hours * 60 + t.minutes - 15 + 24 * 60
            ELSE t.hours * 60 + t.minutes - 15 : t \in {SplitTime(time)} } } : TRUE

\* updateTime: the state it leaves.
updateTime(state, newTime) ==
  IF ~MatchesTimeFormat(newTime)
  THEN [state EXCEPT !.error = Some("Invalid time format (HH:MM)")]
  ELSE [state EXCEPT !.value = Some(newTime), !.error = Null]

\* The value prop of a mounted TimeInput and the initialTime of the hook.
InitialTimes == {"12:00", "23:45"}

\* Texts of the input element after an edit by the user.
TypedTexts ==
  {"", "1", "12", "123", "1234", "12:345", "0907", "23:59", "24:00", "1260",
   "7:30", "1a:2b"}

\* Times handed to updateTime.
UpdateTexts == {"09:07", "24:00", "12:60", "9:30"}

ArrowKeys == {"ArrowUp", "ArrowDown", "ArrowRight", "ArrowLeft"}

\* picker is the state of the component or of the hook: kind tells which,
\* value is the value prop (the parent stores what onChange emits, as
\* DateTimeRangePicker does) or the hook's time.
TimeInit ==
  /\ host \in {"UTC"}
  /\ pc = "shown"
  /\ op = "none"
  /\ args = Null
  /\ ret = Null
  /\ \/ \E value \in Optional(InitialTimes) :
          picker = [kind |-> "TimeInput", value |-> value, error |-> Null]
     \/ \E initialTime \in InitialTimes \cup {"00:00"} :
          picker = [kind |-> "useTimeInput", value |-> Some(initialTime), error |-> Null]
  /\ onRangeChange = Null

\* The user edits the text of a TimeInput.
TypeText ==
  /\ pc = "shown"
  /\ picker.kind = "TimeInput"
  /\ \E typed \in TypedTexts :
       LET r == handleInputChange(typed, picker.error)
       IN  /\ args' = [value |-> picker.value, typed |-> typed]
           /\ ret' = r.emitted
           /\ picker' = [picker EXCEPT
                           !.error = r.error,
                           !.value = IF IsNull(r.emitted) THEN @ ELSE r.emitted]
  /\ op' = "handleInputChange"
  /\ UNCHANGED <<host, pc, onRangeChange>>

\* The user presses an arrow key in a TimeInput.
PressArrowKey ==
  /\ pc = "shown"
  /\ picker.kind = "TimeInput"
  /\ \E key \in ArrowKeys :
       /\ args' = [value |-> picker.value, key |-> key]
       /\ ret' = Some(handleKeyDown(picker.value, key))
       /\ picker' = [picker EXCEPT !.value = Some(handleKeyDown(picker.value, key))]
  /\ op' = "handleKeyDown"
  /\ UNCHANGED <<host, pc, onRangeChange>>

\* The four steps of the hook.
IncrementHour ==
  /\ pc = "shown"
  /\ picker.kind = "useTimeInput"
  /\ picker' = [picker EXCEPT !.value = Some(incrementHour(Val(picker.value)))]
  /\ op' = "incrementHour"
  /\ args' = [value |-> picker.value]
  /\ ret' = Null
  /\ UNCHANGED <<host, pc, onRangeChange>>

DecrementHour ==
  /\ pc = "shown"
  /\ picker.kind = "useTimeInput"
  /\ picker' = [picker EXCEPT !.value = Some(decrementHour(Val(picker.value)))]
  /\ op' = "decrementHour"
  /\ args' = [value |-> picker.value]
  /\ ret' = Null
  /\ UNCHANGED <<host, pc, onRangeChange>>

IncrementMinute ==
  /\ pc = "shown"
  /\ picker.kind = "useTimeInput"
  /\ picker' = [picker EXCEPT !.value = Some(incrementMinute(Val(picker.value)))]
  /\ op' = "incrementMinute"
  /\ args' = [value |-> picker.value]
  /\ ret' = Null
  /\ UNCHANGED <<host, pc, onRangeChange>>

DecrementMinute ==
  /\ pc = "shown"
  /\ picker.kind = "useTimeInput"
  /\ picker' = [picker EXCEPT !.value = Some(decrementMinute(Val(picker.value)))]
  /\ op' = "decrementMinute"
  /\ args' = [value |-> picker.value]
  /\ ret' = Null
  /\ UNCHANGED <<host, pc, onRangeChange>>

UpdateTime ==
  /\ pc = "shown"
  /\ picker.kind = "useTimeInput"
  /\ \E newTime \in UpdateTexts :
       /\ args' = [value |-> picker.value, newTime |-> newTime]
       /\ ret' = MatchesTimeFormat(newTime)
       /\ picker' = updateTime(picker, newTime)
  /\ op' = "updateTime"
  /\ UNCHANGED <<host, pc, onRangeChange>>

TimeNext ==
  \/ TypeText
  \/ PressArrowKey
  \/ IncrementHour
  \/ DecrementHour
  \/ IncrementMinute
  \/ DecrementMinute
  \/ UpdateTime

TimeSpec == TimeInit /\ [][TimeNext]_vars

(***************************************************************************)
(* getDateRange on hosts with and without clock changes, among them a host *)
(* whose clocks go forward at midnight.                                    *)
(***************************************************************************)
DateRangeHosts == HostZones \cup {"America/Santiago"}

\* First days of the ranges: a winter day, the days before the clock
\* changes of America/New_York and the day before the clocks of
\* America/Santiago go forward.
DateRangeBases == { <<0, 15>>, <<2, 8>>, <<8, 5>>, <<10, 1>> }

\* Longest distance in days between the two dates given to getDateRange.
MaxSpan == 3

DateRangeInputs ==
  { NewDate(2025, b[1], b[2] + i, h, 0, 0, 0) :
      b \in DateRangeBases, i \in 0..MaxSpan, h \in {0, 13, 23} }

DateRangeInit ==
  /\ host \in DateRangeHosts
  /\ pc = "idle"
  /\ op = "none"
  /\ args = Null
  /\ ret = Null
  /\ picker = Null
  /\ onRangeChange = Null

CallGetDateRange ==
  /\ pc = "idle"
  /\ \E startDate \in DateRangeInputs, endDate \in DateRangeInputs :
       /\ Abs(endDate.t - startDate.t) <= (MaxSpan + 1) * 1440
       /\ args' = [startDate |-> startDate, endDate |-> endDate]
       /\ ret' = getDateRange(startDate, endDate)
  /\ op' = "getDateRange"
  /\ pc' = "done"
  /\ UNCHANGED <<host, picker, onRangeChange>>

DateRangeNext == CallGetDateRange

DateRangeSpec == DateRangeInit /\ [][DateRangeNext]_vars

(***************************************************************************)
(* CalendarGrid, mounted by a parent that stores the date handed to        *)
(* onDateSelect as the selected date and passes neither onPreviousMonth    *)
(* nor onNextMonth.  picker is the props of the grid: year, month, the     *)
(* four date constraints and selectedDate.                                 *)
(***************************************************************************)
\* handleDateClick: the dates onDateSelect is invoked with, in order.
handleDateClick(date, constraints) ==
  IF ~isDateDisabled(date, constraints) THEN <<date>> ELSE <<>>

\* handleKeyDown of the grid: targetDate after the switch (null for
\* PageUp, PageDown, Enter and Space).
targetDate(key, date, year, month) ==
  CASE key = "ArrowUp" -> Some(setDate(date, getDate(date) - 7))
    [] key = "ArrowDown" -> Some(setDate(date, getDate(date) + 7))
    [] key = "ArrowLeft" -> Some(setDate(date, getDate(date) - 1))
    [] key = "ArrowRight" -> Some(setDate(date, getDate(date) + 1))
    [] key = "Home" -> Some(NewDate(year, month, 1, 0, 0, 0, 0))
    [] key = "End" -> Some(NewDate(year, month + 1, 0, 0, 0, 0, 0))
    [] key \in {"PageUp", "PageDown", "Enter", " "} -> Null

\* handleKeyDown of the grid: the dates onDateSelect is invoked with, in
\* order.
CalendarGridKeyDown(key, date, year, month, constraints) ==
  CHOOSE r \in
    { (IF key \in {"Enter", " "} THEN handleDateClick(date, constraints) ELSE <<>>)
        \o (IF ~IsNull(target) /\ ~isDateDisabled(Val(target), constraints)
            THEN handleDateClick(Val(target), constraints) ELSE <<>>) :
        target \in {targetDate(key, date, year, month)} } : TRUE

GridKeys ==
  {"ArrowUp", "ArrowDown", "ArrowLeft", "ArrowRight", "PageUp", "PageDown",
   "Home", "End", "Enter", " "}

\* Days of the month whose cells receive the clicks and key presses.
GridDays == {1, 15, 22, 31}

\* minDate, maxDate, blackoutDates and disabledDays of the grid.
GridConstraintInputs ==
  { [NoConstraints EXCEPT !.minDate = Some(NewDate(2025, 0, 8, 9, 0, 0, 0)),
                          !.maxDate = Some(NewDate(2025, 0, 22, 0, 0, 0, 0))],
    [NoConstraints EXCEPT !.blackoutDates = Some(<<NewDate(2025, 0, 15, 17, 0, 0, 0),
                                                   NewDate(2025, 0, 23, 0, 0, 0, 0)>>),
                          !.maxDate = Some(NewDate(2025, 0, 30, 12, 0, 0, 0))],
    [NoConstraints EXCEPT !.disabledDays = Some(<<0, 3>>),
                          !.minDate = Some(NewDate(2025, 0, 1, 0, 0, 0, 0))] }

GridInit ==
  /\ host \in HostZones
  /\ pc = "grid"
  /\ op = "none"
  /\ args = Null
  /\ ret = <<>>
  /\ \E constraints \in GridConstraintInputs :
       picker = [year |-> 2025, month |-> 0, selectedDate |-> Null,
                 constraints |-> constraints]
  /\ onRangeChange = Null

\* The parent's onDateSelect for each invocation, in order: the last date
\* is the selected one.
SelectedAfter(selectedDate, calls) ==
  IF calls = <<>> THEN selectedDate ELSE Some(calls[Len(calls)])

\* onClick of a cell.
ClickCell ==
  /\ pc = "grid"
  /\ \E day \in GridDays :
       \E date \in {NewDate(picker.year, picker.month, day, 0, 0, 0, 0)} :
         \E calls \in {handleDateClick(date, picker.constraints)} :
           /\ args' = [date |-> date, key |-> "click", selectedDate |-> picker.selectedDate]
           /\ ret' = calls
           /\ picker' = [picker EXCEPT !.selectedDate = SelectedAfter(@, calls)]
  /\ op' = "handleDateClick"
  /\ UNCHANGED <<host, pc, onRangeChange>>

\* onKeyDown of a cell.
KeyDownCell ==
  /\ pc = "grid"
  /\ \E day \in GridDays, key \in GridKeys :
       \E date \in {NewDate(picker.year, picker.month, day, 0, 0, 0, 0)} :
         \E calls \in {CalendarGridKeyDown(key, date, picker.year, picker.month,
                                            picker.constraints)} :
           /\ args' = [date |-> date, key |-> key, selectedDate |-> picker.selectedDate]
           /\ ret' = calls
           /\ picker' = [picker EXCEPT !.selectedDate = SelectedAfter(@, calls)]
  /\ op' = "handleKeyDown"
  /\ UNCHANGED <<host, pc, onRangeChange>>

GridNext ==
  \/ ClickCell
  \/ KeyDownCell

GridSpec == GridInit /\ [][GridNext]_vars

(***************************************************************************)
(* The useDateTimeRangeState hook.  picker is its state; every operation   *)
(* is setState with a function of the previous state.                      *)
(***************************************************************************)
\* validation.error || null after isDateValid(date, prev.constraints), for
\* a date that is not null.
DateError(date, constraints) ==
  IF IsNull(date) THEN Null
  ELSE IF ~isDateValid(Val(date), constraints).valid
  THEN isDateValid(Val(date), constraints).error
  ELSE Null

setStartDate(prev, date) ==
  [prev EXCEPT !.range.start.date = date, !.error = DateError(date, prev.constraints)]

\* setStartTime that also clears the error, as setStartDate does.
setStartTimeClearingError(prev, time) ==
  [prev EXCEPT !.range.start.time = time, !.error = Null]

setStartTime(prev, time) == [prev EXCEPT !.range.start.time = time]

setEndDate(prev, date) ==
  [prev EXCEPT !.range.end.date = date, !.error = DateError(date, prev.constraints)]

setEndTime(prev, time) == [prev EXCEPT !.range.end.time = time]

\* validation.errors[0] || null
FirstError(validation) ==
  IF Len(validation.errors) > 0 THEN Some(validation.errors[1]) ELSE Null

setRange(prev, range) ==
  [prev EXCEPT !.range = range, !.error = FirstError(isRangeValid(range, prev.constraints))]

setTimezone(prev, timezone) == [prev EXCEPT !.timezone = timezone]

setActiveField(prev, field) == [prev EXCEPT !.activeField = field]

setConstraints(prev, constraints) == [prev EXCEPT !.constraints = constraints]

validate(prev) ==
  [prev EXCEPT !.error = FirstError(isRangeValid(prev.range, prev.constraints))]

reset(prev) ==
  [prev EXCEPT !.range = [start |-> [date |-> Null, time |-> Null],
                          end   |-> [date |-> Null, time |-> Null]],
               !.activeField = Null,
               !.error = Null]

\* initialConstraints and the arguments of setConstraints: none, and a
\* maxDate of 2025-01-15 with Thursdays disabled.
HookConstraintInputs ==
  { NoConstraints,
    [NoConstraints EXCEPT !.maxDate = Some(Day(0, 0)), !.disabledDays = Some(<<4>>)] }

\* Dates handed to setStartDate and setEndDate.
HookDates == Optional({Day(0, 0), Day(1, 0)})

\* Times handed to setStartTime and setEndTime.
HookTimes == Optional({[hh |-> 9, mm |-> 0]})

HookZones == {"UTC", "Asia/Tokyo"}

HookFields == {Null, Some("endTime")}

\* Ranges handed to setRange.
HookRanges ==
  { [start |-> [date |-> Some(Day(0, 0)), time |-> Some([hh |-> 9, mm |-> 0])],
     end   |-> [date |-> Some(Day(1, 0)), time |-> Some([hh |-> 9, mm |-> 30])]],
    [start |-> [date |-> Some(Day(0, 0)), time |-> Null],
     end   |-> [date |-> Null, time |-> Null]] }

HookInit ==
  /\ host \in {"UTC"}
  /\ pc = "hook"
  /\ op = "none"
  /\ args = Null
  /\ ret = Null
  /\ \E initialTimezone \in {"UTC"}, initialConstraints \in HookConstraintInputs :
       picker = [range |-> [start |-> [date |-> Null, time |-> Null],
                            end   |-> [date |-> Null, time |-> Null]],
                 activeField |-> Null,
                 timezone |-> initialTimezone,
                 constraints |-> initialConstraints,
                 error |-> Null]
  /\ onRangeChange = Null

\* A call of the hook's operation name with argument arg that leaves the
\* state next; prev is the state it was called on.
HookCall(name, arg, next) ==
  /\ pc = "hook"
  /\ op' = name
  /\ args' = [prev |-> picker, arg |-> arg]
  /\ picker' = next
  /\ UNCHANGED <<host, pc, ret, onRangeChange>>

SetStartDate ==
  \E date \in HookDates :
    HookCall("setStartDate", date, setStartDate(picker, date))

SetStartTime ==
  \E time \in HookTimes :
    HookCall("setStartTime", time, setStartTime(picker, time))

SetEndDate ==
  \E date \in HookDates :
    HookCall("setEndDate", date, setEndDate(picker, date))

SetEndTime ==
  \E time \in HookTimes :
    HookCall("setEndTime", time, setEndTime(picker, time))

SetRange ==
  \E range \in HookRanges :
    HookCall("setRange", range, setRange(picker, range))

SetTimezone ==
  \E timezone \in HookZones :
    HookCall("setTimezone", timezone, setTimezone(picker, timezone))

SetActiveField ==
  \E field \in HookFields :
    HookCall("setActiveField", field, setActiveField(picker, field))

SetConstraints ==
  \E constraints \in HookConstraintInputs :
    HookCall("setConstraints", constraints, setConstraints(picker, constraints))

Validate ==
  \E arg \in {Null} :
    HookCall("validate", arg, validate(picker))

Reset ==
  \E arg \in {Null} :
    HookCall("reset", arg, reset(picker))

\* The four setters of the range's fields.
SetterNext ==
  \/ SetStartDate
  \/ SetStartTime
  \/ SetEndDate
  \/ SetEndTime

SetterSpec == HookInit /\ [][SetterNext]_vars

HookNext ==
  \/ SetStartDate
  \/ SetStartTime
  \/ SetEndDate
  \/ SetEndTime
  \/ SetRange
  \/ SetTimezone
  \/ SetActiveField
  \/ SetConstraints
  \/ Validate
  \/ Reset

HookSpec == HookInit /\ [][HookNext]_vars

(***************************************************************************)
(* Month navigation: the onPreviousMonth / onNextMonth props that          *)
(* DateTimeRangePicker hands to its grids, and goToPreviousMonth /         *)
(* goToNextMonth of useCalendarNavigation.  picker is the mounted          *)
(* component or hook (kind) with its current date, which starts as         *)
(* new Date(); the grid shows the year and month of the current date.      *)
(***************************************************************************)
onPreviousMonth(currentCalendarDate) ==
  setMonth(currentCalendarDate, getMonth(currentCalendarDate) - 1)

onNextMonth(currentCalendarDate) ==
  setMonth(currentCalendarDate, getMonth(currentCalendarDate) + 1)

goToPreviousMonth(prev) == setMonth(prev, getMonth(prev) - 1)

goToNextMonth(prev) == setMonth(prev, getMonth(prev) + 1)

\* Number of month changes followed from the mount.
MaxMonthSteps == 2

NavInit ==
  /\ host \in HostZones
  /\ pc = "navigating"
  /\ op = "none"
  /\ args = Null
  /\ ret = Null
  /\ \E kind \in {"DateTimeRangePicker", "useCalendarNavigation"}, now \in ClockInstants :
       picker = [kind |-> kind, currentDate |-> now, steps |-> 0]
  /\ onRangeChange = Null

\* A month change that leaves the current date next.
MonthStep(kind, name, next) ==
  /\ pc = "navigating"
  /\ picker.kind = kind
  /\ picker.steps < MaxMonthSteps
  /\ op' = name
  /\ args' = [prev |-> picker.currentDate]
  /\ picker' = [picker EXCEPT !.currentDate = next, !.steps = @ + 1]
  /\ UNCHANGED <<host, pc, ret, onRangeChange>>

OnPreviousMonth ==
  \E next \in {onPreviousMonth(picker.currentDate)} :
    MonthStep("DateTimeRangePicker", "previous", next)

OnNextMonth ==
  \E next \in {onNextMonth(picker.currentDate)} :
    MonthStep("DateTimeRangePicker", "next", next)

GoToPreviousMonth ==
  \E next \in {goToPreviousMonth(picker.currentDate)} :
    MonthStep("useCalendarNavigation", "previous", next)

GoToNextMonth ==
  \E next \in {goToNextMonth(picker.currentDate)} :
    MonthStep("useCalendarNavigation", "next", next)

NavNext ==
  \/ OnPreviousMonth
  \/ OnNextMonth
  \/ GoToPreviousMonth
  \/ GoToNextMonth

NavSpec == NavInit /\ [][NavNext]_vars

(***************************************************************************)
(* Properties.                                                             *)
(***************************************************************************)
Called(name) == pc = "done" /\ op = name

Has(errors, e) == \E i \in 1..Len(errors) : errors[i] = e

StartMissing(range) == IsNull(range.start.date) \/ IsNull(range.start.time)

EndMissing(range) == IsNull(range.end.date) \/ IsNull(range.end.time)

RangeComplete(range) == ~StartMissing(range) /\ ~EndMissing(range)

\* The host's calendar day of a Date, as a day number.
LocalDay(date) == (date.t + ZoneOffset(host, date.t)) \div 1440

\* The four checks of a date against a constraint set, each on its own.
FailsMin(date, c) == ~IsNull(c.minDate) /\ DateLT(date, Val(c.minDate))

FailsMax(date, c) == ~IsNull(c.maxDate) /\ DateLT(Val(c.maxDate), date)

FailsBlackout(date, c) ==
  /\ ~IsNull(c.blackoutDates)
  /\ \E i \in 1..Len(Val(c.blackoutDates)) :
       LocalDay(Val(c.blackoutDates)[i]) = LocalDay(date)

FailsDisabled(date, c) ==
  /\ ~IsNull(c.disabledDays)
  /\ \E i \in 1..Len(Val(c.disabledDays)) :
       Val(c.disabledDays)[i] = WeekDay(LocalDay(date))

FailsAny(date, c) ==
  FailsMin(date, c) \/ FailsMax(date, c) \/ FailsBlackout(date, c) \/ FailsDisabled(date, c)

DateMessages ==
  { "Date is before minimum allowed", "Date is after maximum allowed",
    "This date is not available", "This day is disabled" }

MinDurationMessage(c) == "Duration must be at least " \o formatDuration(Val(c.minDuration))

MaxDurationMessage(c) == "Duration must not exceed " \o formatDuration(Val(c.maxDuration))

\* The place of a message in the fixed order of isRangeValid's errors (0: a
\* message that is none of the five kinds).
ErrorRank(e, c) ==
  IF \E m \in DateMessages : e = "Start: " \o m THEN 1
  ELSE IF \E m \in DateMessages : e = "End: " \o m THEN 2
  ELSE IF e = "Start must be before end" THEN 3
  ELSE IF ~IsNull(c.minDuration) /\ e = MinDurationMessage(c) THEN 4
  ELSE IF ~IsNull(c.maxDuration) /\ e = MaxDurationMessage(c) THEN 5
  ELSE 0

HasRank(errors, c, k) == \E i \in 1..Len(errors) : ErrorRank(errors[i], c) = k

\* The combined values of a complete range and their distance in ms.
CombinedStart(range) == combineDateTime(Val(range.start.date), Val(range.start.time))

CombinedEnd(range) == combineDateTime(Val(range.end.date), Val(range.end.time))

Duration(range) ==
  (CombinedEnd(range).t - CombinedStart(range).t) * 60000
    + (CombinedEnd(range).ms - CombinedStart(range).ms)

\* C1: for a complete range the errors of isRangeValid come in the fixed
\* order Start, End, order, minimum duration, maximum duration; each kind
\* is reported exactly when its own check fails, whatever the earlier
\* checks found (for a duration bound other than 0); and valid is true
\* exactly when there is no error.
C1_ErrorsInFixedOrder ==
  (Called("isRangeValid") /\ RangeComplete(args.range)) =>
    LET errs == ret.errors
        c    == args.constraints
        r    == args.range
    IN  /\ \A i \in 1..Len(errs) : ErrorRank(errs[i], c) > 0
        /\ \A i, j \in 1..Len(errs) :
             i < j => ErrorRank(errs[i], c) < ErrorRank(errs[j], c)
        /\ ret.valid <=> (errs = <<>>)
        /\ HasRank(errs, c, 1) <=> FailsAny(Val(r.start.date), c)
        /\ HasRank(errs, c, 2) <=> FailsAny(Val(r.end.date), c)
        /\ HasRank(errs, c, 3) <=> ~DateLT(CombinedStart(r), CombinedEnd(r))
        /\ (~IsNull(c.minDuration) /\ Val(c.minDuration) # 0) =>
             (HasRank(errs, c, 4) <=> Duration(r) < Val(c.minDuration))
        /\ (~IsNull(c.maxDuration) /\ Val(c.maxDuration) # 0) =>
             (HasRank(errs, c, 5) <=> Duration(r) > Val(c.maxDuration))

\* A complete range that fails four checks at once: both dates, the
\* minimum and the maximum duration.
C1_Witness ==
  /\ Called("isRangeValid")
  /\ RangeComplete(args.range)
  /\ Len(ret.errors) = 4
  /\ HasRank(ret.errors, args.constraints, 1)
  /\ HasRank(ret.errors, args.constraints, 5)

\* C2: a range with a missing date or time on either side is invalid and
\* its errors are exactly the completeness messages: the start's iff the
\* start side is incomplete, then the end's iff the end side is incomplete.
C2_IncompleteOnlyCompleteness ==
  (Called("isRangeValid") /\ ~RangeComplete(args.range)) =>
    /\ ret.valid = FALSE
    /\ ret.errors =
         (IF StartMissing(args.range)
          THEN <<"Start date and time are required">> ELSE <<>>)
         \o (IF EndMissing(args.range)
             THEN <<"End date and time are required">> ELSE <<>>)

\* An incomplete end beside a complete start whose date violates minDate:
\* only the end's completeness message is reported.
C2_Witness ==
  /\ Called("isRangeValid")
  /\ ~StartMissing(args.range)
  /\ EndMissing(args.range)
  /\ ~IsNull(args.range.end.date)
  /\ FailsMin(Val(args.range.start.date), args.constraints)
  /\ ret.errors = <<"End date and time are required">>

\* C3: isDateValid reports the first failing check in the order minDate,
\* maxDate, blackout day, disabled weekday, and only that one; it is valid
\* iff no check fails.
C3_FirstFailingCheckOnly ==
  Called("isDateValid") =>
    LET d == args.date
        c == args.constraints
    IN  /\ ret.valid <=> ~FailsAny(d, c)
        /\ ret.error =
             (IF FailsMin(d, c) THEN Some("Date is before minimum allowed")
              ELSE IF FailsMax(d, c) THEN Some("Date is after maximum allowed")
              ELSE IF FailsBlackout(d, c) THEN Some("This date is not available")
              ELSE IF FailsDisabled(d, c) THEN Some("This day is disabled")
              ELSE Null)

\* A date that fails the maxDate, blackout and weekday checks at once (not
\* minDate) and gets the maxDate message.
C3_Witness ==
  /\ Called("isDateValid")
  /\ ~FailsMin(args.date, args.constraints)
  /\ FailsMax(args.date, args.constraints)
  /\ FailsBlackout(args.date, args.constraints)
  /\ FailsDisabled(args.date, args.constraints)
  /\ ret.error = Some("Date is after maximum allowed")

\* The civil value of one side of a complete range: the host's calendar day
\* of the date with the HH:MM of the time, in minutes.
CivilValue(side) ==
  LocalDay(Val(side.date)) * 1440 + Val(side.time).hh * 60 + Val(side.time).mm

\* No clock change of the host within a day of the instant.
HostClockSteady(date) ==
  ZoneOffset(host, date.t - 1440) = ZoneOffset(host, date.t + 1440)

\* C4: for a complete range "Start must be before end" is reported iff the
\* combined start is not before the combined end; away from a clock change
\* of the host that is iff the start's civil value (date with HH:MM) is
\* greater than or equal to the end's.
C4_OrderErrorIff ==
  (Called("isRangeValid") /\ RangeComplete(args.range)) =>
    LET r == args.range
    IN  /\ Has(ret.errors, "Start must be before end")
             <=> ~DateLT(CombinedStart(r), CombinedEnd(r))
        /\ (HostClockSteady(CombinedStart(r)) /\ HostClockSteady(CombinedEnd(r))) =>
             (Has(ret.errors, "Start must be before end")
                <=> CivilValue(r.start) >= CivilValue(r.end))

\* A range whose start equals its end, from two Dates on the same day at
\* different times of day, is rejected.
C4_Witness ==
  /\ Called("isRangeValid")
  /\ RangeComplete(args.range)
  /\ Val(args.range.start.date) # Val(args.range.end.date)
  /\ CivilValue(args.range.start) = CivilValue(args.range.end)
  /\ Has(ret.errors, "Start must be before end")
  /\ ~ret.valid

\* C5: with minDuration set, "Duration must be at least ..." is reported
\* iff the duration in ms is strictly less than minDuration.
C5_MinDurationIff ==
  (Called("isRangeValid") /\ RangeComplete(args.range)
     /\ ~IsNull(args.constraints.minDuration)) =>
    (Has(ret.errors, MinDurationMessage(args.constraints))
       <=> Duration(args.range) < Val(args.constraints.minDuration))

\* C6: with maxDuration set to any value >= 0, "Duration must not exceed
\* ..." is reported iff the duration in ms is strictly greater than
\* maxDuration.
C6_MaxDurationIff ==
  (Called("isRangeValid") /\ RangeComplete(args.range)
     /\ ~IsNull(args.constraints.maxDuration)
     /\ Val(args.constraints.maxDuration) >= 0) =>
    (Has(ret.errors, MaxDurationMessage(args.constraints))
       <=> Duration(args.range) > Val(args.constraints.maxDuration))

\* C7: a date on the calendar day of a blackout entry is invalid whatever
\* the two times of day; isSameDay holds exactly for Dates on one calendar
\* day, so the blackout message is only given to a date on the day of an
\* entry.
C7_BlackoutByCalendarDay ==
  (Called("isDateValid") /\ ~IsNull(args.constraints.blackoutDates)) =>
    LET bds == Val(args.constraints.blackoutDates)
    IN  /\ (\E i \in 1..Len(bds) : LocalDay(bds[i]) = LocalDay(args.date))
             => ~ret.valid
        /\ ret.error = Some("This date is not available")
             => \E i \in 1..Len(bds) : LocalDay(bds[i]) = LocalDay(args.date)
        /\ \A i \in 1..Len(bds) :
             isSameDay(bds[i], args.date) <=> (LocalDay(bds[i]) = LocalDay(args.date))

\* A date rejected as a blackout by an entry of the same day at another
\* time of day.
C7_Witness ==
  /\ Called("isDateValid")
  /\ ~IsNull(args.constraints.blackoutDates)
  /\ \E i \in 1..Len(Val(args.constraints.blackoutDates)) :
       /\ LocalDay(Val(args.constraints.blackoutDates)[i]) = LocalDay(args.date)
       /\ Val(args.constraints.blackoutDates)[i] # args.date
  /\ ret.error = Some("This date is not available")

\* C8: getOffsetMinutes returns the zone's UTC offset at the instant.
C8_OffsetOfZone ==
  Called("getOffsetMinutes") => ret = ZoneOffset(args.timezone, args.date.t)

\* C9: for America/New_York isDaylightSavings is true for every instant of
\* 2025-07-15 and false for every instant of 2025-01-15.
C9_NewYorkSummerWinter ==
  (Called("isDaylightSavings") /\ args.timezone = "America/New_York") =>
    /\ LocalDay(args.date) = DaysFromCivil(2025, 6, 15) => ret = TRUE
    /\ LocalDay(args.date) = DaysFromCivil(2025, 0, 15) => ret = FALSE

\* A clock change of the zone within three hours of the instant.
NearClockChange(zone, t) == ZoneOffset(zone, t - 180) # ZoneOffset(zone, t + 180)

\* C10: utcToTimezone followed by timezoneToUtc with the same zone of the
\* catalog returns the original instant, unless the instant is at a clock
\* change of the zone.
C10_RoundTrip ==
  (Called("timezoneToUtc") /\ ~IsNull(args.origin)
     /\ SeqIncludes(getAllTimezones, args.timezone)
     /\ ~NearClockChange(args.timezone, Val(args.origin).t)) =>
    ret = Val(args.origin)

\* C11: for every civil date-time and zone of the catalog, timezoneToUtc
\* returns the nominal instant (the civil fields read as UTC) minus the
\* zone's full offset at that nominal instant, to the minute.
C11_FullOffsetSubtracted ==
  (Called("timezoneToUtc") /\ SeqIncludes(getAllTimezones, args.timezone)) =>
    LET nominal == LocalMinutes(args.localDate)
    IN  ret.t = nominal - ZoneOffset(args.timezone, nominal)

\* C12: a call of a timezone-converter operation with a zone identifier
\* that is not in the catalog of getAllTimezones fails with the error
\* UnknownTimezone and returns neither an offset nor a date.
C12_UnknownTimezoneFails ==
  (pc \in {"done", "threw"} /\ op \in ZoneFunctions
     /\ ~SeqIncludes(getAllTimezones, args.timezone)) =>
    (pc = "threw" /\ ret = "UnknownTimezone")

\* A Date is the host's civil date y-m-d (month 0..11) at h:mi:s.ms.
IsLocal(date, y, m, d, h, mi, s, ms) ==
  /\ LocalDay(date) = DaysFromCivil(y, m, d)
  /\ LocalMinutes(date) % 1440 = h * 60 + mi
  /\ date.ms = s * 1000 + ms

\* C13: getRange is a function of the baseDate it is given: a second call
\* with the same baseDate returns the range of the first whatever the
\* system clock reads, and "Last 7 Days" with baseDate 2025-06-10 returns
\* 2025-06-04 00:00 to 2025-06-10 23:59.
C13_RangeFromBaseDate ==
  (Called("getRange") /\ ~IsNull(args.baseDate)) =>
    /\ ~IsNull(args.first) => ret = Val(args.first)
    /\ (args.preset = "last7days"
          /\ LocalDay(Val(args.baseDate)) = DaysFromCivil(2025, 5, 10)) =>
         /\ IsLocal(ret.start, 2025, 5, 4, 0, 0, 0, 0)
         /\ ret.startTime = "00:00"
         /\ LocalDay(ret.end) = DaysFromCivil(2025, 5, 10)
         /\ ret.endTime = "23:59"

\* A Date is minute m of the host's calendar day number n, at ms
\* milliseconds into that minute.
AtDay(date, n, m, ms) ==
  /\ LocalDay(date) = n
  /\ LocalMinutes(date) % 1440 = m
  /\ date.ms = ms

\* C14: "This Month" returns day 1 of the current month at 00:00:00.000
\* and the last calendar day of that month at 23:59:59.999, for every
\* current date.
C14_ThisMonthWholeMonth ==
  (Called("getRange") /\ args.preset = "thisMonth") =>
    LET c == LocalCivil(args.now)
    IN  /\ AtDay(ret.start, MakeDay(c.year, c.month, 1), 0, 0)
        /\ AtDay(ret.end, MakeDay(c.year, c.month + 1, 1) - 1, 1439, 59999)

\* C15: "Last Month" returns day 1 of the previous calendar month at
\* 00:00:00.000 and the last day of that month at 23:59:59.999, for every
\* current date, so start is never after end.
C15_LastMonthWholeMonth ==
  (Called("getRange") /\ args.preset = "lastMonth") =>
    LET c == LocalCivil(args.now)
    IN  /\ AtDay(ret.start, MakeDay(c.year, c.month - 1, 1), 0, 0)
        /\ AtDay(ret.end, MakeDay(c.year, c.month, 1) - 1, 1439, 59999)
        /\ ~DateLT(ret.end, ret.start)

\* The N of a "Last N Days" preset.
LastNDaysOf(preset) ==
  CASE preset = "last7days" -> 7
    [] preset = "last30days" -> 30
    [] preset = "lastQuarter" -> 90

C17_OnlyValidRangesCommitted ==
  (pc = "mounted" /\ ~IsNull(onRangeChange)) =>
    isRangeValid(Val(onRangeChange), picker.constraints).valid

\* C18: getTimezoneInfo(date, zone).offset equals getOffsetMinutes(date,
\* zone), positive when the zone is ahead of UTC: for America/New_York on
\* 2025-01-15 both are -300.
C18_InfoOffsetIsOffsetMinutes ==
  Called("getTimezoneInfo") =>
    /\ ret.offset = getOffsetMinutes(args.date, args.timezone)
    /\ (args.timezone = "America/New_York"
          /\ LocalDay(args.date) = DaysFromCivil(2025, 0, 15)) => ret.offset = -300

\* The units of a duration, largest first, with their lengths in ms.
DurationUnits ==
  << [name |-> "day", length |-> 86400000], [name |-> "hour", length |-> 3600000],
     [name |-> "minute", length |-> 60000], [name |-> "second", length |-> 1000] >>

\* C19: for ms >= 1000 formatDuration returns "{n} {unit}" for the largest
\* unit whose whole count floor(ms / unit) is at least 1, n being that
\* count, with "s" appended iff n > 1; the remainder is dropped.
C19_LargestWholeUnit ==
  (Called("formatDuration") /\ args.ms >= 1000) =>
    \E i \in 1..Len(DurationUnits) :
      LET n == args.ms \div DurationUnits[i].length
      IN  /\ n >= 1
          /\ \A j \in 1..(i - 1) : args.ms \div DurationUnits[j].length = 0
          /\ ret = ToString(n) \o " " \o DurationUnits[i].name
                     \o (IF n > 1 THEN "s" ELSE "")

\* 90 minutes format as "1 hour".
C19_Witness ==
  /\ Called("formatDuration")
  /\ args.ms = 5400000
  /\ ret = "1 hour"

\* C20: getOffsetMinutes(instant, "UTC") returns 0 for every instant.
C20_UtcOffsetZero ==
  (Called("getOffsetMinutes") /\ args.timezone = "UTC") => ret = 0

\* An instant whose calendar day on the host is not its UTC day, with
\* offset 0 for UTC.
C20_Witness ==
  /\ Called("getOffsetMinutes")
  /\ args.timezone = "UTC"
  /\ LocalDay(args.date) # args.date.t \div 1440
  /\ ret = 0

MidnightOf(n) == [t |-> LocalToUtc(n * 1440), ms |-> 0]

\* C23: when start's calendar day is not after end's, getDateRange returns
\* one midnight Date per calendar day from start's day through end's day,
\* in ascending order (count = whole days between + 1); when start's day is
\* after end's it returns the empty list.
C23_OneDatePerDay ==
  Called("getDateRange") =>
    LET first == LocalDay(args.startDate)
        last  == LocalDay(args.endDate)
    IN  IF first <= last
        THEN /\ Len(ret) = last - first + 1
             /\ \A i \in 1..Len(ret) : ret[i] = MidnightOf(first + i - 1)
        ELSE ret = <<>>

\* The day a key of the grid moves to, as a number of days from the cell's
\* day; Home and End go to the first and last day of the month shown.
KeyTargetDay(key, date, year, month) ==
  CASE key = "ArrowUp" -> LocalDay(date) - 7
    [] key = "ArrowDown" -> LocalDay(date) + 7
    [] key = "ArrowLeft" -> LocalDay(date) - 1
    [] key = "ArrowRight" -> LocalDay(date) + 1
    [] key = "Home" -> MakeDay(year, month, 1)
    [] key = "End" -> MakeDay(year, month + 1, 1) - 1

MoveKeys == {"ArrowUp", "ArrowDown", "ArrowLeft", "ArrowRight", "Home", "End"}

ClockMinutes(text) ==
  NumberOfDigits(SubSeq(text, 1, 2)) * 60 + NumberOfDigits(SubSeq(text, 4, 5))

\* Minutes an arrow key or a step of the hook adds, modulo 24 hours.
StepOf(name) ==
  CASE name \in {"ArrowUp", "incrementHour"} -> 60
    [] name \in {"ArrowDown", "decrementHour"} -> 1440 - 60
    [] name \in {"ArrowRight", "incrementMinute"} -> 15
    [] name \in {"ArrowLeft", "decrementMinute"} -> 1440 - 15

OppositeKey(key) ==
  CASE key = "ArrowUp" -> "ArrowDown"
    [] key = "ArrowDown" -> "ArrowUp"
    [] key = "ArrowRight" -> "ArrowLeft"
    [] key = "ArrowLeft" -> "ArrowRight"

\* The step of the hook that an arrow key corresponds to, applied to a time.
HookStepOf(key, time) ==
  CASE key = "ArrowUp" -> incrementHour(time)
    [] key = "ArrowDown" -> decrementHour(time)
    [] key = "ArrowRight" -> incrementMinute(time)
    [] key = "ArrowLeft" -> decrementMinute(time)

\* C22: on a well-formed value ArrowUp / ArrowDown emit the time one hour
\* later / earlier and ArrowRight / ArrowLeft the time 15 minutes later /
\* earlier, modulo 24 hours and as well-formed HH:MM; the opposite key
\* pressed next returns the original value; and the four steps of
\* useTimeInput give the same results.
C22_ArrowKeysStepTheClock ==
  /\ (pc = "shown" /\ op = "handleKeyDown") =>
       LET shown == timeValue(args.value)
       IN  /\ MatchesTimeFormat(Val(ret))
           /\ ClockMinutes(Val(ret)) = (ClockMinutes(shown) + StepOf(args.key)) % 1440
           /\ handleKeyDown(ret, OppositeKey(args.key)) = shown
           /\ HookStepOf(args.key, shown) = Val(ret)
  /\ (pc = "shown"
        /\ op \in {"incrementHour", "decrementHour", "incrementMinute", "decrementMinute"}) =>
       /\ MatchesTimeFormat(Val(picker.value))
       /\ ClockMinutes(Val(picker.value))
            = (ClockMinutes(Val(args.value)) + StepOf(op)) % 1440

\* ArrowRight on 23:45 emits 00:00: the minutes carry into the hour and the
\* hour wraps.
C22_Witness ==
  /\ pc = "shown"
  /\ op = "handleKeyDown"
  /\ args.key = "ArrowRight"
  /\ args.value = Some("23:45")
  /\ ret = Some("00:00")

\* The digits of a typed text that handleInputChange looks at.
TypedDigits(typed) ==
  IF Len(ReplaceNonDigits(typed)) > 4 THEN SubSeq(ReplaceNonDigits(typed), 1, 4)
  ELSE ReplaceNonDigits(typed)

\* C25: TimeInput calls onChange only with a text matching
\* ^([01]\d|2[0-3]):([0-5]\d)$: typed input whose first two digits exceed 23
\* or whose minute digits exceed 59 sets an error and emits nothing, fewer
\* than four digits emit nothing; so from a null or well-formed value every
\* value after any sequence of typing and arrow keys is well-formed.
C25_OnlyWellFormedEmitted ==
  (pc = "shown" /\ picker.kind = "TimeInput") =>
    /\ ~IsNull(picker.value) => MatchesTimeFormat(Val(picker.value))
    /\ (op \in {"handleInputChange", "handleKeyDown"} /\ ~IsNull(ret)) =>
         MatchesTimeFormat(Val(ret))
    /\ op = "handleInputChange" =>
         LET d == TypedDigits(args.typed)
         IN  /\ Len(d) < 4 => IsNull(ret)
             /\ (Len(d) >= 2 /\ NumberOfDigits(SubSeq(d, 1, 2)) > 23) =>
                  (IsNull(ret) /\ ~IsNull(picker.error))
             /\ (Len(d) = 4 /\ NumberOfDigits(SubSeq(d, 3, 4)) > 59) =>
                  (IsNull(ret) /\ ~IsNull(picker.error))

\* A typed text of five digits around a colon: "12:345" is cut to its
\* first four digits and emitted as 12:34.
C25_Witness ==
  /\ pc = "shown"
  /\ op = "handleInputChange"
  /\ args.typed = "12:345"
  /\ ret = Some("12:34")

\* C26: when isRangeValid accepts a range under constraints with minDate
\* and/or maxDate, the combined start (start date with its HH:MM) is not
\* before minDate and the combined end (end date with its HH:MM) is not
\* after maxDate.
C26_CombinedWithinBounds ==
  (Called("isRangeValid") /\ ret.valid) =>
    /\ ~IsNull(args.constraints.minDate) =>
         ~DateLT(CombinedStart(args.range), Val(args.constraints.minDate))
    /\ ~IsNull(args.constraints.maxDate) =>
         ~DateGT(CombinedEnd(args.range), Val(args.constraints.maxDate))

\* A date of the hook's range that is present and fails a check of the
\* constraints.
SideInvalid(date, c) == ~IsNull(date) /\ FailsAny(Val(date), c)

\* C27: in useDateTimeRangeState, after any sequence of setStartDate,
\* setEndDate, setStartTime and setEndTime, if state.error is null then
\* every non-null date of state.range passes isDateValid against
\* state.constraints; an error raised by one side is not cleared by
\* setting a valid date on the other side.
C27_NoErrorMeansValidDates ==
  pc = "hook" =>
    /\ IsNull(picker.error) =>
         /\ ~SideInvalid(picker.range.start.date, picker.constraints)
         /\ ~SideInvalid(picker.range.end.date, picker.constraints)
    /\ (op = "setEndDate" /\ ~IsNull(args.prev.error)
          /\ SideInvalid(args.prev.range.start.date, args.prev.constraints)
          /\ ~IsNull(args.arg) /\ ~SideInvalid(args.arg, args.prev.constraints)) =>
         ~IsNull(picker.error)
    /\ (op = "setStartDate" /\ ~IsNull(args.prev.error)
          /\ SideInvalid(args.prev.range.end.date, args.prev.constraints)
          /\ ~IsNull(args.arg) /\ ~SideInvalid(args.arg, args.prev.constraints)) =>
         ~IsNull(picker.error)

\* The month a date shows in the grid, counted in months.
ShownMonth(date) == getFullYear(date) * 12 + getMonth(date)

\* C28: 'next month' advances the displayed (year, month) by exactly one
\* calendar month and 'previous month' moves it back by exactly one, for
\* every current date including days 29, 30 and 31; next followed by
\* previous, and previous followed by next, show the original month.
C28_OneMonthPerStep ==
  (pc = "navigating" /\ op \in {"next", "previous"}) =>
    /\ op = "next" =>
         /\ ShownMonth(picker.currentDate) = ShownMonth(args.prev) + 1
         /\ ShownMonth(goToPreviousMonth(picker.currentDate)) = ShownMonth(args.prev)
    /\ op = "previous" =>
         /\ ShownMonth(picker.currentDate) = ShownMonth(args.prev) - 1
         /\ ShownMonth(goToNextMonth(picker.currentDate)) = ShownMonth(args.prev)

\* C29: reset() sets the four fields of the range, activeField and error
\* to null and leaves timezone and constraints unchanged; setStartTime,
\* setEndTime, setTimezone, setActiveField and setConstraints each change
\* only their own field and leave error and every other field unchanged.
C29_HookFrames ==
  (pc = "hook" /\ op # "none") =>
    LET prev == args.prev
    IN  /\ op = "reset" =>
             /\ picker.range = [start |-> [date |-> Null, time |-> Null],
                                end   |-> [date |-> Null, time |-> Null]]
             /\ picker.activeField = Null
             /\ picker.error = Null
             /\ picker.timezone = prev.timezone
             /\ picker.constraints = prev.constraints
        /\ op = "setStartTime" =>
             /\ picker.range.start.time = args.arg
             /\ picker.range.start.date = prev.range.start.date
             /\ picker.range.end = prev.range.end
        /\ op = "setEndTime" =>
             /\ picker.range.end.time = args.arg
             /\ picker.range.end.date = prev.range.end.date
             /\ picker.range.start = prev.range.start
        /\ op = "setTimezone" => picker.timezone = args.arg
        /\ op = "setActiveField" => picker.activeField = args.arg
        /\ op = "setConstraints" => picker.constraints = args.arg
        /\ op \in {"setStartTime", "setEndTime", "setTimezone", "setActiveField",
                   "setConstraints"} =>
             /\ picker.error = prev.error
             /\ op \notin {"setStartTime", "setEndTime"} => picker.range = prev.range
             /\ op # "setTimezone" => picker.timezone = prev.timezone
             /\ op # "setActiveField" => picker.activeField = prev.activeField
             /\ op # "setConstraints" => picker.constraints = prev.constraints

\* setStartTime called while an error is shown: the error stays.
C29_Witness ==
  /\ pc = "hook"
  /\ op = "setStartTime"
  /\ ~IsNull(args.prev.error)
  /\ args.arg # args.prev.range.start.time
  /\ picker.error = args.prev.error

\* Zones of the table whose UTC offset is the same all year.
ConstantOffsetZones == {"UTC", "GMT", "Asia/Kolkata", "Asia/Tokyo", "Africa/Nairobi"}

\* C30: for a zone whose UTC offset is constant all year isDaylightSavings
\* returns false for every instant, at every time of day and on every host.
C30_ConstantZoneNeverDST ==
  (Called("isDaylightSavings") /\ args.timezone \in ConstantOffsetZones) =>
    ret = FALSE

====
